---- MODULE Spec2Model ----
(***************************************************************************)
(* Model of the proxy pool service (Ayuan97/proxy_pool).                   *)
(*                                                                         *)
(* Time is logical and counted in seconds.  The relational store is the    *)
(* sequence rows: the row with primary key i is rows[i]; gorm.Model gives  *)
(* every row a soft-delete timestamp, modelled by the field deleted.       *)
(* In-memory models.Proxy values ("copies") are records of the same shape  *)
(* with id = 0 for a value that has not been inserted yet.                 *)
(***************************************************************************)
EXTENDS Integers, Sequences, FiniteSets, TLC

(* ----------------------------- bounds ---------------------------------- *)
MaxRows == 2          \* primary keys handed out by the store
MaxFail == 2          \* largest max_fail_count explored with the fetch jobs
MaxPoolFail == 3      \* largest max_fail_count explored with the pool caller
MaxBatch == 1         \* candidates returned by one upstream fetch
MaxTicks == 1         \* clock advances explored
MaxReports == 3       \* feedback reports explored
MaxValidations == 1   \* runs of the bulk validation job explored
MaxUses == 11         \* acquisitions explored on one models.Proxy value
MaxStats == 3         \* results recorded on one models.Proxy value
MaxSeconds == 3       \* seconds of cron time explored
MaxWorkers == 2       \* largest worker pool size (maxWorkers) explored

(* ------------------------- program constants --------------------------- *)
CooldownFailures == 3      \* runtime failures that start a cooldown
CooldownSeconds == 300     \* 5 * time.Minute
DefaultMaxConcurrent == 10
BoostedMaxConcurrent == 20
QueryLimit == 50

Endpoints == {"e1", "e2"}
ProbeTimes == {100}                \* response time in ms a probe measures
ReportSpeeds == {6000}             \* speed in ms a consumer reports
Forever == 1000000000              \* time.Since of the zero time (saturated)
TickSteps == {300}                 \* seconds the clock may advance in one step
NoTime == -1                       \* zero time.Time / absent map entry
None == "none"

ReportIds == {1}                   \* proxy ids consumers report on

TypeTemp == "temp"
TypeLong == "long"
TypeAnon == "anon"
TypeHighAnon == "high_anon"

SelProcs == {"s1"}                 \* GET /api/proxy requests
RepProcs == {"r1"}                 \* POST /api/proxy/:id/status requests
Procs == SelProcs \cup RepProcs
FetchJobs == {"paid", "free"}
Holders == {"h1"}                  \* callers holding a models.Proxy value
Callers == {"h1", "h2"}            \* the same, where two values of one row are held
CronJobs == FetchJobs \cup {"validate", "cleanup", "optimise"}
NoRun == [active |-> 0, ticks |-> 0, skipped |-> 0, done |-> 0, since |-> NoTime]

VARIABLES
  rows,          \* the proxies table
  passed,        \* history: endpoints some validation has accepted
  maxFailCount,  \* ProxyValidator.maxFailCount / ProxyPool.maxFailCount
  now,           \* logical clock
  ticks,         \* number of clock advances so far
  vrun, vjobs,   \* ValidateAll: running flag and the loaded, unprocessed copies
  vruns,         \* number of bulk validation runs started so far
  fpc, fbatch, fcur,   \* fetch jobs: position, remaining candidates, current one
  ppc, pcopy, pstart, pcalls,  \* caller of ProxyPool.ValidateProxy
  lastUsed, useCount, failCount, weights, cooldown,  \* ProxyScheduler maps
  readers, wOwner,     \* ProxyScheduler.mu
  streak,              \* history: failure reports in a row per proxy
  found,               \* history: runtime fail_count the last report on a proxy found
  reports,             \* history: feedback reports accepted so far
  pc, task, snap, picked, result, before, qual, rep,  \* requests in flight
  mem,                 \* models.Proxy values that callers of the lease API hold
  ojob,                \* the optimise job in steps: running or not, rows loaded and not yet saved
  maxWorkers,          \* ProxyValidator.maxWorkers
  vapc,                \* ValidateAll with its worker pool: position of the calling goroutine
  totalCount, unsent,  \* ValidateAll: len(proxies), the loaded proxies not yet sent
  jobs, jobsClosed,    \* the jobs channel and whether it is closed
  results, resultsClosed,  \* the results channel and whether it is closed
  worker, wg,          \* the worker goroutines and the WaitGroup counter
  successCount, failedCount,  \* ValidateAll's tally (successCount, failCount)
  vaRet,               \* what the last ValidateAll call returned
  validated, errored,  \* history: validations per proxy id in this run, validations that returned an error
  vaRuns,              \* number of ValidateAll calls so far
  scrape,              \* a scrape source's FetchProxies: position, URLs left, pages got, result
  usage,               \* the proxy_usages table (ProxyUsage records)
  leases,              \* history: acquisitions not yet released, per value held
  cron, uptime         \* the cron scheduler: per-job bookkeeping, seconds running

storeVars == <<rows, passed, maxFailCount>>
clockVars == <<now, ticks>>
validVars == <<vrun, vjobs, vruns>>
fetchVars == <<fpc, fbatch, fcur>>
poolVars == <<ppc, pcopy, pstart, pcalls>>
schedVars == <<lastUsed, useCount, failCount, weights, cooldown, readers, wOwner,
               streak, found, reports, pc, task, snap, picked, result, before, qual, rep>>
leaseVars == <<mem>>
optVars == <<ojob>>
workVars == <<maxWorkers, vapc, totalCount, unsent, jobs, jobsClosed, results, resultsClosed,
              worker, wg, successCount, failedCount, vaRet, validated, errored, vaRuns>>
cronVars == <<cron, uptime>>
srcVars == <<scrape>>
logVars == <<usage>>
copyVars == <<leases>>
vars == <<rows, passed, maxFailCount, now, ticks, vrun, vjobs, vruns, fpc, fbatch, fcur,
          ppc, pcopy, pstart, pcalls,
          lastUsed, useCount, failCount, weights, cooldown, readers, wOwner,
          streak, found, reports, pc, task, snap, picked, result, before, qual, rep,
          mem, ojob, cron, uptime,
          maxWorkers, vapc, totalCount, unsent, jobs, jobsClosed, results, resultsClosed,
          worker, wg, successCount, failedCount, vaRet, validated, errored, vaRuns,
          scrape, usage, leases>>

Ids == 1..MaxRows

(* ------------------------------ the store ------------------------------ *)

\* A candidate as an upstream adapter builds it: only the descriptive fields set.
Candidate(e, t, a) ==
  [id |-> 0, ep |-> e, type |-> t, protocol |-> "http", region |-> "",
   source |-> None, anonymous |-> a, speed |-> 0,
   available |-> FALSE, failCount |-> 0, success |-> 0, failure |-> 0,
   useCount |-> 0, score |-> 0, concurrentUse |-> 0, maxConcurrent |-> 0,
   lastCheck |-> NoTime, deleted |-> FALSE]

NoCopy == Candidate(None, None, FALSE)

\* The optimise job at rest.
NoJob == [at |-> "idle", loaded |-> <<>>]

\* gorm fills a zero-valued field that has a default tag with the default on
\* INSERT, in the statement and in the Go value: available default:true,
\* max_concurrent default:10 (also set by BeforeCreate, which stamps
\* last_check with the current time as well).
ApplyDefaults(c) ==
  [c EXCEPT !.available = TRUE,
            !.maxConcurrent = IF c.maxConcurrent = 0 THEN DefaultMaxConcurrent
                              ELSE c.maxConcurrent,
            !.lastCheck = now]

\* No query reads the columns of a soft-deleted row (every query carries
\* deleted_at IS NULL, and a Save that hits one overwrites all columns), so
\* the table keeps only its key.
Tombstone(i) == [NoCopy EXCEPT !.id = i, !.deleted = TRUE]

Live(rs, i) == i \in 1..Len(rs) /\ ~rs[i].deleted

LiveIds(rs) == {i \in 1..Len(rs) : ~rs[i].deleted}

\* db.Create(c): the Go value after the call.  A zero id gets the next key.
CreatedCopy(rs, c) ==
  IF c.id = 0 THEN [ApplyDefaults(c) EXCEPT !.id = Len(rs) + 1]
  ELSE ApplyDefaults(c)

\* db.Create(c): the table after the call.  An explicit id that is already
\* taken (soft-deleted rows included) is a duplicate-key error.
DbCreate(rs, c) ==
  IF c.id = 0 THEN Append(rs, CreatedCopy(rs, c)) ELSE rs

\* db.Save(c): INSERT when the key is zero; otherwise UPDATE of all columns of
\* the live row, and when no live row matched, INSERT .. ON DUPLICATE KEY
\* UPDATE of all columns (the Go value's soft-delete timestamp included).
SavedCopy(rs, c) ==
  IF c.id = 0 THEN CreatedCopy(rs, c)
  ELSE IF Live(rs, c.id) THEN c
  ELSE ApplyDefaults(c)

DbSave(rs, c) ==
  IF c.id = 0 THEN DbCreate(rs, c)
  ELSE IF c.deleted THEN [rs EXCEPT ![c.id] = Tombstone(c.id)]
  ELSE [rs EXCEPT ![c.id] = SavedCopy(rs, c)]

\* db.Delete(c): soft delete by primary key; without a key gorm refuses
\* (ErrMissingWhereClause) and nothing changes.  The Go value's DeletedAt is set.
DeletedCopy(c) == IF c.id = 0 THEN c ELSE [c EXCEPT !.deleted = TRUE]

DbDelete(rs, c) ==
  IF c.id # 0 /\ Live(rs, c.id) THEN [rs EXCEPT ![c.id] = Tombstone(c.id)] ELSE rs

IsProxyExists(rs, e) == \E i \in LiveIds(rs) : rs[i].ep = e

\* Variant: the candidate is inserted without the look-up.
UpsertBlind(rs, c) == DbCreate(rs, c)

\* Variant: the update of an existing row also clears its fail_count.
UpsertReset(rs, c) ==
  IF ~IsProxyExists(rs, c.ep) THEN DbCreate(rs, c)
  ELSE [i \in 1..Len(rs) |->
          IF ~rs[i].deleted /\ rs[i].ep = c.ep
          THEN [rs[i] EXCEPT !.type = c.type, !.protocol = c.protocol,
                             !.region = c.region, !.source = c.source,
                             !.anonymous = c.anonymous, !.failCount = 0]
          ELSE rs[i]]

\* One loop iteration of BatchCreateWithDuplicateCheck.
UpsertOne(rs, c) ==
  IF ~IsProxyExists(rs, c.ep) THEN DbCreate(rs, c)
  ELSE [i \in 1..Len(rs) |->
          IF ~rs[i].deleted /\ rs[i].ep = c.ep
          THEN [rs[i] EXCEPT !.type = c.type, !.protocol = c.protocol,
                             !.region = c.region, !.source = c.source,
                             !.anonymous = c.anonymous]
          ELSE rs[i]]

RECURSIVE BatchCreateWithDuplicateCheck(_, _)
BatchCreateWithDuplicateCheck(rs, cs) ==
  IF cs = <<>> THEN rs
  ELSE BatchCreateWithDuplicateCheck(UpsertOne(rs, Head(cs)), Tail(cs))

\* The candidates as the caller sees them after the batch: tx.Create wrote the
\* new key and the defaults into the values it inserted.
RECURSIVE BatchCopies(_, _)
BatchCopies(rs, cs) ==
  IF cs = <<>> THEN <<>>
  ELSE <<IF ~IsProxyExists(rs, Head(cs).ep) THEN CreatedCopy(rs, Head(cs))
         ELSE Head(cs)>>
       \o BatchCopies(UpsertOne(rs, Head(cs)), Tail(cs))

(* ---------------------------- the validator ---------------------------- *)

\* Variant: a failed probe leaves fail_count as it was.
ProbedUncounted(c, ok, ms) ==
  [c EXCEPT !.lastCheck = now, !.speed = ms, !.available = ok,
            !.failCount = IF ok THEN 0 ELSE c.failCount]

\* Variant: a successful probe leaves fail_count as it was.
ProbedKept(c, ok, ms) ==
  [c EXCEPT !.lastCheck = now, !.speed = ms, !.available = ok,
            !.failCount = IF ok THEN c.failCount ELSE c.failCount + 1]

\* ProxyValidator.ValidateProxy, lines 116-147: the Go value after the probe.
Probed(c, ok, ms) ==
  [c EXCEPT !.lastCheck = now, !.speed = ms, !.available = ok,
            !.failCount = IF ok THEN 0 ELSE c.failCount + 1]

\* Variant: eviction only once fail_count has passed the maximum.
EvictsLate(c, ok) == ~ok /\ c.failCount + 1 > maxFailCount

\* ProxyValidator.ValidateProxy, line 138: the eviction test.
Evicts(c, ok) == ~ok /\ c.failCount + 1 >= maxFailCount

\* The store after ValidateProxy: Delete on eviction, Save otherwise.
ValidatedRows(rs, c, ok, ms) ==
  IF Evicts(c, ok) THEN DbDelete(rs, Probed(c, ok, ms))
  ELSE DbSave(rs, Probed(c, ok, ms))

\* The Go value after ValidateProxy.
ValidatedCopy(rs, c, ok, ms) ==
  IF Evicts(c, ok) THEN DeletedCopy(Probed(c, ok, ms))
  ELSE SavedCopy(rs, Probed(c, ok, ms))

\* db.Delete without a primary key is the only store error on this path.
ValidateErr(c, ok) == Evicts(c, ok) /\ c.id = 0

Passed(c, ok) == IF ok THEN passed \cup {c.ep} ELSE passed

(* ------------------------------ sources -------------------------------- *)

\* What one upstream fetch can return: the paid adapters build long-lived
\* anonymous candidates, the scrapers (for a transparent listing) temp ones.
SourceCandidates(k) ==
  IF k = "paid"
  THEN {[Candidate(e, TypeLong, TRUE) EXCEPT !.source = "kuaidaili_paid"] : e \in Endpoints}
  ELSE {[Candidate(e, TypeTemp, FALSE) EXCEPT !.source = "fatezero"] : e \in Endpoints}

Batches(k) ==
  UNION {[1..n -> SourceCandidates(k)] : n \in 1..MaxBatch}

(* --------------------------- bulk validation --------------------------- *)

\* ValidateAll without its early return: the worker pool is set up whatever
\* was loaded.
StartsWorkersAlways(loaded) == TRUE

\* ProxyValidator.ValidateAll, lines 172-176: with nothing loaded it returns
\* nil before the worker pool is set up.
StartsWorkers(loaded) == loaded # {}

\* ProxyValidator.ValidateAll up to the dispatch: load every row and queue it,
\* or return at once when the table has none.
ValidateAll ==
  /\ ~vrun
  /\ vruns < MaxValidations
  /\ vjobs' = {rows[i] : i \in LiveIds(rows)}
  /\ vrun' = StartsWorkers(vjobs')
  /\ vruns' = vruns + 1
  /\ UNCHANGED <<storeVars, clockVars, leaseVars, optVars, cronVars, fetchVars, poolVars, schedVars, workVars, srcVars, logVars, copyVars>>

\* One worker takes a queued copy and runs ValidateProxy on it; the run ends
\* when the queue is drained.
ValidateWorker ==
  /\ vrun
  /\ \E c \in vjobs, ok \in BOOLEAN, ms \in ProbeTimes :
       /\ rows' = ValidatedRows(rows, c, ok, ms)
       /\ passed' = Passed(c, ok)
       /\ vjobs' = vjobs \ {c}
       /\ vrun' = (vjobs' # {})
  /\ UNCHANGED <<vruns, maxFailCount, clockVars, leaseVars, optVars, cronVars, fetchVars, poolVars, schedVars, workVars, srcVars, logVars, copyVars>>

(* ------------------- bulk validation: the worker pool ------------------ *)

Workers == 1..MaxWorkers

NoWorker == [at |-> "off", job |-> NoCopy]

\* What one ValidateProxy call of a worker comes to: the probe passes, the
\* probe fails, or the store write at its end fails and the call returns the
\* error.
Outcomes == {"pass", "fail", "error"}

\* Variant: as many workers as the validator allows, whatever was loaded.
workerCountUncapped(n) == MaxWorkers

\* ValidateAll, lines 188-191: workerCount.
workerCount(n) == IF n < maxWorkers THEN n ELSE maxWorkers

\* Variant: a worker that ends without telling the WaitGroup.
DoneForgotten(n) == n

\* defer wg.Done().
Done(n) == n - 1

\* for proxy := range jobs: the channel after a receive.
Received(q) == Tail(q)

\* Variant: the call fails when a validation returned an error.
ReturnedStrict(errs) == IF errs > 0 THEN "err" ELSE "nil"

\* ValidateAll, line 238: what the call returns after the tally.
Returned(errs) == "nil"

\* ValidateAll, lines 166-201: load the table; return the error when the query
\* fails and nil when nothing was loaded; otherwise make the two channels
\* (capacity totalCount each) and start the workers.
StartValidateAll ==
  /\ vapc = "idle"
  /\ vaRuns < MaxValidations
  /\ vaRuns' = vaRuns + 1
  /\ \E queried \in BOOLEAN :
       LET loaded == SelectSeq(rows, LAMBDA r : ~r.deleted) IN
       IF ~queried \/ loaded = <<>>
       THEN /\ vaRet' = IF queried THEN "nil" ELSE "err"
            /\ UNCHANGED <<vapc, totalCount, unsent, jobs, jobsClosed, results, resultsClosed,
                           worker, wg, successCount, failedCount, validated, errored>>
       ELSE /\ vapc' = "send"
            /\ vaRet' = None
            /\ totalCount' = Len(loaded)
            /\ unsent' = loaded
            /\ jobs' = <<>>
            /\ jobsClosed' = FALSE
            /\ results' = <<>>
            /\ resultsClosed' = FALSE
            /\ worker' = [w \in Workers |->
                            IF w <= workerCount(Len(loaded)) THEN [at |-> "recv", job |-> NoCopy]
                            ELSE NoWorker]
            /\ wg' = workerCount(Len(loaded))
            /\ successCount' = 0
            /\ failedCount' = 0
            /\ validated' = [i \in Ids |-> 0]
            /\ errored' = 0
  /\ UNCHANGED <<storeVars, maxWorkers, clockVars, validVars, fetchVars, poolVars, schedVars,
                 leaseVars, optVars, cronVars, srcVars, logVars, copyVars>>

\* ValidateAll, lines 204-206: jobs <- proxy.  The channel has room for all.
SendJob ==
  /\ vapc = "send"
  /\ unsent # <<>>
  /\ jobs' = Append(jobs, Head(unsent))
  /\ unsent' = Tail(unsent)
  /\ UNCHANGED <<storeVars, clockVars, validVars, fetchVars, poolVars, schedVars,
                 leaseVars, optVars, cronVars, maxWorkers, vapc, totalCount, jobsClosed, results,
                 resultsClosed, worker, wg, successCount, failedCount, vaRet, validated,
                 errored, vaRuns, srcVars, logVars, copyVars>>

\* ValidateAll, lines 207-213: close(jobs), start the goroutine that closes
\* results, go on to the tally.
CloseJobs ==
  /\ vapc = "send"
  /\ unsent = <<>>
  /\ jobsClosed' = TRUE
  /\ vapc' = "collect"
  /\ UNCHANGED <<storeVars, clockVars, validVars, fetchVars, poolVars, schedVars,
                 leaseVars, optVars, cronVars, maxWorkers, totalCount, unsent, jobs, results,
                 resultsClosed, worker, wg, successCount, failedCount, vaRet, validated,
                 errored, vaRuns, srcVars, logVars, copyVars>>

\* A worker receives the next proxy from jobs.
WorkerTake(w) ==
  /\ worker[w].at = "recv"
  /\ jobs # <<>>
  /\ worker' = [worker EXCEPT ![w] = [at |-> "busy", job |-> Head(jobs)]]
  /\ jobs' = Received(jobs)
  /\ UNCHANGED <<storeVars, clockVars, validVars, fetchVars, poolVars, schedVars,
                 leaseVars, optVars, cronVars, maxWorkers, vapc, totalCount, unsent, jobsClosed,
                 results, resultsClosed, wg, successCount, failedCount, vaRet, validated,
                 errored, vaRuns, srcVars, logVars, copyVars>>

\* A worker finishes ValidateProxy on the proxy it holds and sends
\* err == nil && proxy.Available to results, which has room for all.
WorkerValidate(w) ==
  /\ worker[w].at = "busy"
  /\ \E o \in Outcomes, ms \in ProbeTimes :
       /\ rows' = IF o = "error" THEN rows
                  ELSE ValidatedRows(rows, worker[w].job, o = "pass", ms)
       /\ passed' = IF o = "error" THEN passed ELSE Passed(worker[w].job, o = "pass")
       /\ results' = Append(results, o = "pass")
       /\ errored' = IF o = "error" THEN errored + 1 ELSE errored
  /\ validated' = [validated EXCEPT ![worker[w].job.id] = @ + 1]
  /\ worker' = [worker EXCEPT ![w] = [at |-> "recv", job |-> NoCopy]]
  /\ UNCHANGED <<maxFailCount, clockVars, validVars, fetchVars, poolVars, schedVars,
                 leaseVars, optVars, cronVars, maxWorkers, vapc, totalCount, unsent, jobs,
                 jobsClosed, resultsClosed, wg, successCount, failedCount, vaRet, vaRuns, srcVars, logVars, copyVars>>

\* A worker finds jobs closed and drained: its loop ends, wg.Done().
WorkerExit(w) ==
  /\ worker[w].at = "recv"
  /\ jobs = <<>>
  /\ jobsClosed
  /\ worker' = [worker EXCEPT ![w] = [at |-> "exit", job |-> NoCopy]]
  /\ wg' = Done(wg)
  /\ UNCHANGED <<storeVars, clockVars, validVars, fetchVars, poolVars, schedVars,
                 leaseVars, optVars, cronVars, maxWorkers, vapc, totalCount, unsent, jobs,
                 jobsClosed, results, resultsClosed, successCount, failedCount, vaRet,
                 validated, errored, vaRuns, srcVars, logVars, copyVars>>

\* ValidateAll, lines 210-213: wg.Wait() returns, close(results).
CloseResults ==
  /\ vapc = "collect"
  /\ wg = 0
  /\ ~resultsClosed
  /\ resultsClosed' = TRUE
  /\ UNCHANGED <<storeVars, clockVars, validVars, fetchVars, poolVars, schedVars,
                 leaseVars, optVars, cronVars, maxWorkers, vapc, totalCount, unsent, jobs,
                 jobsClosed, results, worker, wg, successCount, failedCount, vaRet,
                 validated, errored, vaRuns, srcVars, logVars, copyVars>>

\* ValidateAll, lines 216-224: one turn of for result := range results.
Collect ==
  /\ vapc = "collect"
  /\ results # <<>>
  /\ successCount' = IF Head(results) THEN successCount + 1 ELSE successCount
  /\ failedCount' = IF Head(results) THEN failedCount ELSE failedCount + 1
  /\ results' = Tail(results)
  /\ UNCHANGED <<storeVars, clockVars, validVars, fetchVars, poolVars, schedVars,
                 leaseVars, optVars, cronVars, maxWorkers, vapc, totalCount, unsent, jobs,
                 jobsClosed, resultsClosed, worker, wg, vaRet, validated, errored, vaRuns, srcVars, logVars, copyVars>>

\* ValidateAll, lines 226-238: results is closed and drained, the summary is
\* logged and the call returns.
ReturnValidateAll ==
  /\ vapc = "collect"
  /\ results = <<>>
  /\ resultsClosed
  /\ vapc' = "idle"
  /\ vaRet' = Returned(errored)
  /\ UNCHANGED <<storeVars, clockVars, validVars, fetchVars, poolVars, schedVars,
                 leaseVars, optVars, cronVars, maxWorkers, totalCount, unsent, jobs,
                 jobsClosed, results, resultsClosed, worker, wg, successCount, failedCount,
                 validated, errored, vaRuns, srcVars, logVars, copyVars>>

(* --------------------------- scrape sources ---------------------------- *)

\* The fixed URL list of a scrape source (two pages each).
Urls == <<"u1", "u2">>

\* What fetchFromURL can come to for one URL: an error, or the candidates
\* parsed from the page (none when no row of the page parses).
Pages ==
  {[ok |-> FALSE, proxies |-> <<>>]}
    \cup {[ok |-> TRUE, proxies |-> b] : b \in {<<>>} \cup Batches("free")}

NoScrape == [at |-> "idle", left |-> <<>>, got |-> <<>>, allProxies |-> <<>>,
             ret |-> None, err |-> None]

\* IP3366Source.FetchProxies, lines 177-187: the call starts on its URL list.
StartFetch ==
  /\ scrape.at = "idle"
  /\ scrape' = [NoScrape EXCEPT !.at = "loop", !.left = Urls]
  /\ UNCHANGED <<storeVars, clockVars, validVars, fetchVars, poolVars, schedVars,
                 leaseVars, optVars, cronVars, workVars, logVars, copyVars>>

\* One turn of the loop of lines 189-205: a failed URL is logged and skipped,
\* the candidates of any other are appended.
fetchFromURL ==
  /\ scrape.at = "loop"
  /\ scrape.left # <<>>
  /\ \E page \in Pages :
       scrape' = [scrape EXCEPT !.left = Tail(@),
                                !.got = Append(@, page),
                                !.allProxies = IF page.ok THEN @ \o page.proxies ELSE @]
  /\ UNCHANGED <<storeVars, clockVars, validVars, fetchVars, poolVars, schedVars,
                 leaseVars, optVars, cronVars, workVars, logVars, copyVars>>

\* Lines 207-221: store what was collected, return allProxies and nil.
ReturnFetch ==
  /\ scrape.at = "loop"
  /\ scrape.left = <<>>
  /\ Len(BatchCreateWithDuplicateCheck(rows, scrape.allProxies)) <= MaxRows
  /\ rows' = BatchCreateWithDuplicateCheck(rows, scrape.allProxies)
  /\ scrape' = [scrape EXCEPT !.at = "idle",
                              !.ret = BatchCopies(rows, scrape.allProxies),
                              !.err = "nil"]
  /\ UNCHANGED <<passed, maxFailCount, clockVars, validVars, fetchVars, poolVars, schedVars,
                 leaseVars, optVars, cronVars, workVars, logVars, copyVars>>

(* ------------------------------ fetch jobs ----------------------------- *)

\* addProxies moves on to the next candidate, or the job ends.
NextCandidate(k) ==
  /\ fbatch' = [fbatch EXCEPT ![k] = Tail(fbatch[k])]
  /\ fcur' = [fcur EXCEPT ![k] = NoCopy]
  /\ fpc' = [fpc EXCEPT ![k] = IF Tail(fbatch[k]) = <<>> THEN "idle" ELSE "add"]

\* FetchPaidProxies / FetchFreeProxies: the source's FetchProxies, which
\* stores what it fetched (SaveProxies) before it returns the candidates.
FetchProxies(k) ==
  /\ fpc[k] = "idle"
  /\ \E cs \in Batches(k) :
       /\ Len(BatchCreateWithDuplicateCheck(rows, cs)) <= MaxRows
       /\ rows' = BatchCreateWithDuplicateCheck(rows, cs)
       /\ fbatch' = [fbatch EXCEPT ![k] = BatchCopies(rows, cs)]
  /\ fpc' = [fpc EXCEPT ![k] = "add"]
  /\ UNCHANGED <<passed, maxFailCount, fcur, clockVars, leaseVars, optVars, cronVars, validVars, poolVars, schedVars, workVars, srcVars, logVars, copyVars>>

\* BaseSource.SaveProxies on its own: a source stores a batch; the batch stays
\* with the source as the values of its last run.
SaveProxies(k) ==
  /\ fpc[k] = "idle"
  /\ \E cs \in Batches(k) :
       /\ Len(BatchCreateWithDuplicateCheck(rows, cs)) <= MaxRows
       /\ rows' = BatchCreateWithDuplicateCheck(rows, cs)
       /\ fbatch' = [fbatch EXCEPT ![k] = BatchCopies(rows, cs)]
  /\ UNCHANGED <<passed, maxFailCount, fpc, fcur, clockVars, leaseVars, optVars, cronVars, validVars, poolVars, schedVars, workVars, srcVars, logVars, copyVars>>

\* ProxyFetcher.addProxy, lines 88-98: skip a candidate that has a row.
AddProxyCheck(k) ==
  /\ fpc[k] = "add"
  /\ IF IsProxyExists(rows, Head(fbatch[k]).ep)
     THEN NextCandidate(k)
     ELSE /\ fcur' = [fcur EXCEPT ![k] = Head(fbatch[k])]
          /\ fpc' = [fpc EXCEPT ![k] = "validate"]
          /\ UNCHANGED fbatch
  /\ UNCHANGED <<storeVars, clockVars, leaseVars, optVars, cronVars, validVars, poolVars, schedVars, workVars, srcVars, logVars, copyVars>>

\* ProxyFetcher.addProxy, lines 101-125: validate, give up on error or when
\* the value is not available.
AddProxyValidate(k) ==
  /\ fpc[k] = "validate"
  /\ fcur[k].id = 0 => Len(rows) < MaxRows
  /\ \E ok \in BOOLEAN, ms \in ProbeTimes :
       /\ rows' = ValidatedRows(rows, fcur[k], ok, ms)
       /\ passed' = Passed(fcur[k], ok)
       /\ IF ValidateErr(fcur[k], ok) \/ ~ValidatedCopy(rows, fcur[k], ok, ms).available
          THEN NextCandidate(k)
          ELSE /\ fcur' = [fcur EXCEPT ![k] = ValidatedCopy(rows, fcur[k], ok, ms)]
               /\ fpc' = [fpc EXCEPT ![k] = "create"]
               /\ UNCHANGED fbatch
  /\ UNCHANGED <<maxFailCount, clockVars, leaseVars, optVars, cronVars, validVars, poolVars, schedVars, workVars, srcVars, logVars, copyVars>>

\* ProxyFetcher.addProxy, line 134: db.Create of the validated value.
AddProxyCreate(k) ==
  /\ fpc[k] = "create"
  /\ rows' = DbCreate(rows, fcur[k])
  /\ NextCandidate(k)
  /\ UNCHANGED <<passed, maxFailCount, clockVars, leaseVars, optVars, cronVars, validVars, poolVars, schedVars, workVars, srcVars, logVars, copyVars>>

(* ---------------------------- POST /api/proxy -------------------------- *)

\* What a client may post: any endpoint, described as it likes.
ClientProxies ==
  {[Candidate(e, TypeTemp, FALSE) EXCEPT !.source = "manual"] : e \in Endpoints}

\* Server.addProxy binds the body and calls ProxyPool.AddProxy, which
\* creates the row without looking the endpoint up.
AddProxy ==
  /\ Len(rows) < MaxRows
  /\ \E c \in ClientProxies : rows' = DbCreate(rows, c)
  /\ UNCHANGED <<passed, maxFailCount, clockVars, leaseVars, optVars, cronVars, validVars, fetchVars, poolVars, schedVars, workVars, srcVars, logVars, copyVars>>

\* Server.deleteProxy calls ProxyPool.RemoveProxy: delete by primary key. An
\* id no stored row has changes nothing.
RemoveProxy ==
  /\ \E i \in LiveIds(rows) : rows' = DbDelete(rows, rows[i])
  /\ UNCHANGED <<passed, maxFailCount, clockVars, leaseVars, optVars, cronVars, validVars, fetchVars, poolVars, schedVars, workVars, srcVars, logVars, copyVars>>

(* ------------------- ProxyPool.ValidateProxy callers ------------------- *)

\* A caller obtains a stored proxy to validate through the pool.
PoolLoad ==
  /\ ppc = "idle"
  /\ \E i \in LiveIds(rows) :
       /\ pcopy' = rows[i]
       /\ pstart' = rows[i].failCount
  /\ pcalls' = 0
  /\ ppc' = "ready"
  /\ UNCHANGED <<storeVars, clockVars, leaseVars, optVars, cronVars, validVars, fetchVars, schedVars, workVars, srcVars, logVars, copyVars>>

\* ProxyPool.ValidateProxy, lines 692-702: the validator's part.  pcalls
\* counts the calls in a row whose probes were all rejected, pstart is the
\* stored fail_count they started from (NoTime: the row was not stored).
PoolValidate ==
  /\ ppc = "ready"
  /\ pcalls <= maxFailCount
  /\ \E ok \in BOOLEAN, ms \in ProbeTimes :
       /\ rows' = ValidatedRows(rows, pcopy, ok, ms)
       /\ passed' = Passed(pcopy, ok)
       /\ pcopy' = ValidatedCopy(rows, pcopy, ok, ms)
       /\ pcalls' = IF ok THEN 0 ELSE pcalls + 1
       /\ pstart' = IF ~ok THEN pstart
                   ELSE IF Live(ValidatedRows(rows, pcopy, ok, ms), pcopy.id) THEN 0
                   ELSE NoTime
  /\ ppc' = "save"
  /\ UNCHANGED <<maxFailCount, clockVars, leaseVars, optVars, cronVars, validVars, fetchVars, schedVars, workVars, srcVars, logVars, copyVars>>

\* ProxyPool.ValidateProxy, lines 705-713: the facade saves the value again.
PoolSave ==
  /\ ppc = "save"
  /\ rows' = DbSave(rows, pcopy)
  /\ pcopy' = SavedCopy(rows, pcopy)
  /\ ppc' = "ready"
  /\ UNCHANGED <<passed, maxFailCount, pstart, pcalls, clockVars, leaseVars, optVars, cronVars, validVars,
                 fetchVars, schedVars, workVars, srcVars, logVars, copyVars>>

\* The caller drops the value.
PoolDone ==
  /\ ppc = "ready"
  /\ ppc' = "idle"
  /\ pcopy' = NoCopy
  /\ pstart' = 0
  /\ pcalls' = 0
  /\ UNCHANGED <<storeVars, clockVars, leaseVars, optVars, cronVars, validVars, fetchVars, schedVars, workVars, srcVars, logVars, copyVars>>


(* ------------------------------ scheduler ------------------------------ *)

StrategyWeighted == "weighted"
StrategyRoundRobin == "roundrobin"
StrategyLeastUsed == "leastused"
StrategyFailover == "failover"
StrategySiteAdaptive == "site_adaptive"
StrategyOther == "random"          \* any value the switch does not know

Strategies == {StrategyWeighted, StrategyRoundRobin, StrategyLeastUsed,
               StrategyFailover, StrategySiteAdaptive, StrategyOther}
SortedStrategies == {StrategyRoundRobin, StrategyLeastUsed, StrategyFailover}

ErrNoProxyAvailable == "NoProxy"
ErrNoQualifiedProxy == "NoQualified"

\* core.Task: the fields the API sets from the query.
Tasks ==
  {t \in [ptype : {TypeTemp}, strategy : Strategies, domain : {"", "d"},
          requireAnon : {TRUE}, minSpeed : {0}] :
     t.domain = "d" => t.strategy = StrategySiteAdaptive}

NoTask == [ptype |-> None, strategy |-> None, domain |-> "", requireAnon |-> FALSE,
           minSpeed |-> 0]
NoQual == [expired |-> {}, cooled |-> {}, failed |-> {}, ok |-> {}]
NoReport == [proxy |-> NoCopy, success |-> FALSE, speed |-> 0]

Min(a, b) == IF a < b THEN a ELSE b
Max(a, b) == IF a > b THEN a ELSE b
abs(n) == IF n < 0 THEN -n ELSE n

\* ORDER BY success_rate DESC, speed ASC: no modelled writer gives two
\* available rows different success_rate values, so speed decides; rows of
\* equal speed come in key order.
RECURSIVE OrderBySpeed(_, _)
OrderBySpeed(rs, S) ==
  IF S = {} THEN <<>>
  ELSE LET m == CHOOSE i \in S : \A j \in S :
                  \/ rs[i].speed < rs[j].speed
                  \/ rs[i].speed = rs[j].speed /\ i <= j
       IN <<rs[m]>> \o OrderBySpeed(rs, S \ {m})

\* ProxyPool.GetProxies: WHERE type = ? AND available = ? .. LIMIT ?
GetProxies(rs, proxyType, limit) ==
  LET all == OrderBySpeed(rs, {i \in LiveIds(rs) :
                                 rs[i].type = proxyType /\ rs[i].available})
  IN SubSeq(all, 1, Min(limit, Len(all)))

SeqIds(sq) == {sq[k].id : k \in 1..Len(sq)}

TypeOk(c, t) == t.ptype = "" \/ c.type = t.ptype

InCooldown(i) == cooldown[i] # NoTime /\ now < cooldown[i]

StaleCooldown(i) == cooldown[i] # NoTime /\ ~(now < cooldown[i])

\* ProxyScheduler.isProxyQualified: the verdict.
isProxyQualified(c, t) ==
  /\ TypeOk(c, t)
  /\ ~InCooldown(c.id)
  /\ failCount[c.id] < CooldownFailures

\* ProxyScheduler.isProxyQualified: the stale cooldown entries it deletes
\* while a strategy filters the snapshot sq.
Dropped(sq, t) == {i \in SeqIds(sq) : \E k \in 1..Len(sq) :
                     sq[k].id = i /\ TypeOk(sq[k], t) /\ StaleCooldown(i)}

RECURSIVE Qualified(_, _)
Qualified(sq, t) ==
  IF sq = <<>> THEN <<>>
  ELSE (IF isProxyQualified(Head(sq), t) THEN <<Head(sq)>> ELSE <<>>)
       \o Qualified(Tail(sq), t)

\* ProxyScheduler.calculateScore in thousandths of a point.
GetSuccessRate(c) ==
  IF c.success + c.failure = 0 THEN 0
  ELSE (c.success * 100000) \div (c.success + c.failure)

\* Variant: the speed and usage parts are not cut off at 0.
calculateScoreUncut(c) ==
  (GetSuccessRate(c) * 6) \div 10
  + (IF c.speed > 0 THEN ((100000 - c.speed * 20) * 3) \div 10 ELSE 0)
  + (IF c.useCount > 0 THEN (100000 - c.useCount * 10) \div 10 ELSE 0)

calculateScore(c) ==
  (GetSuccessRate(c) * 6) \div 10
  + (IF c.speed > 0 THEN (Max(0, 100000 - c.speed * 20) * 3) \div 10 ELSE 0)
  + (IF c.useCount > 0 THEN Max(0, 100000 - c.useCount * 10) \div 10 ELSE 0)

\* weightedSchedule: the weight used for a candidate (cache, else score).
WeightOf(c) == IF weights[c.id] = 0 THEN calculateScore(c) ELSE weights[c.id]

\* weightedSchedule, lines 129-145: with r drawn from [0, total) the loop
\* returns the first index whose running sum reaches r: index 1 for r = 0,
\* and otherwise an index of positive weight.
WeightedPickable(cs) == {1} \cup {k \in 1..Len(cs) : WeightOf(cs[k]) > 0}

Since(t) == IF t = NoTime THEN Forever ELSE now - t

\* The less functions handed to sort.Slice.
Less(kind, a, b) ==
  CASE kind = StrategyRoundRobin -> lastUsed[a.id] < lastUsed[b.id]
    [] kind = StrategyLeastUsed -> useCount[a.id] < useCount[b.id]
    [] kind = StrategyFailover -> failCount[a.id] < failCount[b.id]
    [] OTHER ->
         IF abs(useCount[a.id] - useCount[b.id]) > 2
         THEN useCount[a.id] < useCount[b.id]
         ELSE IF Since(lastUsed[a.id]) > 5 \/ Since(lastUsed[b.id]) > 5
         THEN Since(lastUsed[a.id]) > Since(lastUsed[b.id])
         ELSE a.score > b.score

\* sort.Slice on fewer than 12 elements is an insertion sort.
RECURSIVE Sink(_, _, _)
Sink(sq, j, kind) ==
  IF j > 1 /\ Less(kind, sq[j], sq[j - 1])
  THEN Sink([sq EXCEPT ![j] = sq[j - 1], ![j - 1] = sq[j]], j - 1, kind)
  ELSE sq

RECURSIVE InsertionSort(_, _, _)
InsertionSort(sq, i, kind) ==
  IF i > Len(sq) THEN sq ELSE InsertionSort(Sink(sq, i, kind), i + 1, kind)

SortSlice(sq, kind) == InsertionSort(sq, 2, kind)

\* sync.RWMutex: RLock waits while a writer holds or awaits the lock.
CanRLock == wOwner = None

\* A strategy settled on candidate c: it calls updateProxyStats(c, true).
Select(p, c) ==
  /\ picked' = [picked EXCEPT ![p] = c.id]
  /\ before' = [before EXCEPT ![p] = useCount[c.id]]
  /\ result' = [result EXCEPT ![p] = "proxy"]
  /\ pc' = [pc EXCEPT ![p] = "stats"]

\* A strategy returns an error.
Fail(p, err) ==
  /\ result' = [result EXCEPT ![p] = err]
  /\ pc' = [pc EXCEPT ![p] = "ret"]
  /\ UNCHANGED <<picked, before>>

\* History: how the runtime maps stood for the rows of the snapshot sq when a
\* strategy looked at them, and the rows ok it took as candidates.
Seen(sq, ok) ==
  [expired |-> {i \in SeqIds(sq) : StaleCooldown(i)},
   cooled |-> {i \in SeqIds(sq) : InCooldown(i)},
   failed |-> {i \in SeqIds(sq) : failCount[i] >= CooldownFailures},
   ok |-> ok]

\* What the filter loop of a strategy leaves behind.
Filtered(p) ==
  /\ cooldown' = [i \in Ids |-> IF i \in Dropped(snap[p], task[p]) THEN NoTime
                                ELSE cooldown[i]]
  /\ qual' = [qual EXCEPT ![p] = Seen(snap[p], SeqIds(Qualified(snap[p], task[p])))]

\* ProxyScheduler.ScheduleProxy, lines 44-51: read lock, store query.
ScheduleProxy(p) ==
  /\ pc[p] = "idle"
  /\ CanRLock
  /\ readers' = readers \cup {p}
  /\ \E t \in Tasks :
       /\ task' = [task EXCEPT ![p] = t]
       /\ snap' = [snap EXCEPT ![p] = GetProxies(rows, t.ptype, QueryLimit)]
  /\ pc' = [pc EXCEPT ![p] = "strategy"]
  /\ UNCHANGED <<storeVars, clockVars, leaseVars, optVars, cronVars, validVars, fetchVars, poolVars, lastUsed,
                 useCount, failCount, weights, cooldown, wOwner, streak, found, reports, picked,
                 result, before, qual, rep, workVars, srcVars, logVars, copyVars>>

weightedSchedule(p) ==
  /\ pc[p] = "strategy"
  /\ task[p].strategy = StrategyWeighted
  /\ Filtered(p)
  /\ LET cs == Qualified(snap[p], task[p]) IN
       /\ weights' = [i \in Ids |-> IF \E k \in 1..Len(cs) : cs[k].id = i
                                    THEN WeightOf(CHOOSE c \in {cs[k] : k \in 1..Len(cs)} : c.id = i)
                                    ELSE weights[i]]
       /\ IF snap[p] = <<>> THEN Fail(p, ErrNoProxyAvailable)
          ELSE IF cs = <<>> THEN Fail(p, ErrNoQualifiedProxy)
          ELSE \E k \in WeightedPickable(cs) : Select(p, cs[k])
  /\ UNCHANGED <<storeVars, clockVars, leaseVars, optVars, cronVars, validVars, fetchVars, poolVars, lastUsed,
                 useCount, failCount, readers, wOwner, streak, found, reports, task, snap, rep, workVars, srcVars, logVars, copyVars>>

\* roundRobinSchedule, leastUsedSchedule, failoverSchedule: filter, sort, take
\* the first.
sortedSchedule(p) ==
  /\ pc[p] = "strategy"
  /\ task[p].strategy \in SortedStrategies
  /\ Filtered(p)
  /\ LET cs == Qualified(snap[p], task[p]) IN
       IF snap[p] = <<>> THEN Fail(p, ErrNoProxyAvailable)
       ELSE IF cs = <<>> THEN Fail(p, ErrNoQualifiedProxy)
       ELSE Select(p, SortSlice(cs, task[p].strategy)[1])
  /\ UNCHANGED <<storeVars, clockVars, leaseVars, optVars, cronVars, validVars, fetchVars, poolVars, lastUsed,
                 useCount, failCount, weights, readers, wOwner, streak, found, reports, task, snap,
                 rep, workVars, srcVars, logVars, copyVars>>

\* defaultSchedule, also reached from siteAdaptiveSchedule without a domain.
defaultSchedule(p) ==
  /\ pc[p] = "strategy"
  /\ \/ task[p].strategy = StrategyOther
     \/ task[p].strategy = StrategySiteAdaptive /\ task[p].domain = ""
  /\ Filtered(p)
  /\ LET cs == Qualified(snap[p], task[p]) IN
       IF snap[p] = <<>> THEN Fail(p, ErrNoProxyAvailable)
       ELSE IF cs = <<>> THEN Fail(p, ErrNoQualifiedProxy)
       ELSE \E k \in 1..Len(cs) : Select(p, cs[k])
  /\ UNCHANGED <<storeVars, clockVars, leaseVars, optVars, cronVars, validVars, fetchVars, poolVars, lastUsed,
                 useCount, failCount, weights, readers, wOwner, streak, found, reports, task, snap,
                 rep, workVars, srcVars, logVars, copyVars>>

\* siteAdaptiveSchedule with a domain: every row of the snapshot is a
\* candidate; sort, then one of the first three (the first when <= 3).
siteAdaptiveSchedule(p) ==
  /\ pc[p] = "strategy"
  /\ task[p].strategy = StrategySiteAdaptive
  /\ task[p].domain # ""
  /\ qual' = [qual EXCEPT ![p] = Seen(snap[p], SeqIds(snap[p]))]
  /\ LET cs == SortSlice(snap[p], StrategySiteAdaptive) IN
       IF cs = <<>> THEN Fail(p, ErrNoQualifiedProxy)
       ELSE \E k \in (IF Len(cs) > 3 THEN 1..3 ELSE {1}) : Select(p, cs[k])
  /\ UNCHANGED <<storeVars, clockVars, leaseVars, optVars, cronVars, validVars, fetchVars, poolVars, lastUsed,
                 useCount, failCount, weights, cooldown, readers, wOwner, streak, found, reports,
                 task, snap, rep, workVars, srcVars, logVars, copyVars>>

\* updateProxyStats, line 329: s.mu.Lock() takes the writer mutex and then
\* waits until no reader is left.
LockStats(p) ==
  /\ pc[p] = "stats"
  /\ wOwner = None
  /\ wOwner' = p
  /\ pc' = [pc EXCEPT ![p] = "locked"]
  /\ UNCHANGED <<storeVars, clockVars, leaseVars, optVars, cronVars, validVars, fetchVars, poolVars, lastUsed,
                 useCount, failCount, weights, cooldown, readers, streak, found, reports, task, snap,
                 picked, result, before, qual, rep, workVars, srcVars, logVars, copyVars>>

StatsProxy(p) == IF p \in SelProcs
                 THEN CHOOSE c \in {snap[p][k] : k \in 1..Len(snap[p])} : c.id = picked[p]
                 ELSE rep[p].proxy

StatsSuccess(p) == IF p \in SelProcs THEN TRUE ELSE rep[p].success

\* Variant: a success leaves the failure count as it is.
NextFailCountKept(f, success) == IF success THEN f ELSE f + 1

\* updateProxyStats, lines 335-343.
NextFailCount(f, success) == IF success THEN 0 ELSE f + 1

\* Variant: the cooldown starts one failure late.
NextCooldownLate(cd, f, success) ==
  IF success THEN NoTime
  ELSE IF f + 1 > CooldownFailures THEN now + CooldownSeconds
  ELSE cd

NextCooldown(cd, f, success) ==
  IF success THEN NoTime
  ELSE IF NextFailCount(f, success) >= CooldownFailures THEN now + CooldownSeconds
  ELSE cd

\* updateProxyStats, lines 332-347, once the write lock is held; the lock is
\* released on return.
updateProxyStats(p) ==
  /\ pc[p] = "locked"
  /\ wOwner = p
  /\ readers = {}
  /\ LET c == StatsProxy(p)
         i == c.id
         success == StatsSuccess(p)
     IN /\ lastUsed' = [lastUsed EXCEPT ![i] = now]
        /\ useCount' = [useCount EXCEPT ![i] = @ + 1]
        /\ failCount' = [failCount EXCEPT ![i] = NextFailCount(@, success)]
        /\ cooldown' = [cooldown EXCEPT ![i] = NextCooldown(@, failCount[i], success)]
        /\ weights' = [weights EXCEPT ![i] = calculateScore(c)]
        /\ found' = IF p \in SelProcs THEN found ELSE [found EXCEPT ![i] = failCount[i]]
        /\ streak' = [streak EXCEPT ![i] =
                        IF p \in SelProcs THEN @ ELSE IF success THEN 0 ELSE @ + 1]
        /\ pc' = [pc EXCEPT ![p] = IF p \in SelProcs THEN "ret"
                                   ELSE IF success THEN "idle" ELSE "status"]
        /\ rep' = IF p \in RepProcs /\ success THEN [rep EXCEPT ![p] = NoReport] ELSE rep
  /\ wOwner' = None
  /\ UNCHANGED <<storeVars, clockVars, leaseVars, optVars, cronVars, validVars, fetchVars, poolVars, readers, reports, task,
                 snap, picked, result, before, qual, workVars, srcVars, logVars, copyVars>>

\* ScheduleProxy returns: the deferred RUnlock runs.
Return(p) ==
  /\ pc[p] = "ret"
  /\ readers' = readers \ {p}
  /\ pc' = [pc EXCEPT ![p] = "idle"]
  /\ task' = [task EXCEPT ![p] = NoTask]
  /\ snap' = [snap EXCEPT ![p] = <<>>]
  /\ picked' = [picked EXCEPT ![p] = 0]
  /\ result' = [result EXCEPT ![p] = None]
  /\ before' = [before EXCEPT ![p] = 0]
  /\ qual' = [qual EXCEPT ![p] = NoQual]
  /\ UNCHANGED <<storeVars, clockVars, leaseVars, optVars, cronVars, validVars, fetchVars, poolVars, lastUsed,
                 useCount, failCount, weights, cooldown, wOwner, streak, found, reports, rep, workVars, srcVars, logVars, copyVars>>

\* ProxyScheduler.ReportProxyStatus, lines 351-357: load the row by id.
ReportProxyStatus(p) ==
  /\ pc[p] = "idle"
  /\ reports < MaxReports
  /\ reports' = reports + 1
  /\ \E i \in LiveIds(rows) \cap ReportIds, success \in BOOLEAN, speed \in ReportSpeeds :
       rep' = [rep EXCEPT ![p] = [proxy |-> rows[i], success |-> success,
                                     speed |-> speed]]
  /\ pc' = [pc EXCEPT ![p] = "stats"]
  /\ UNCHANGED <<storeVars, clockVars, leaseVars, optVars, cronVars, validVars, fetchVars, poolVars, lastUsed,
                 useCount, failCount, weights, cooldown, readers, wOwner, streak, found,
                 task, snap, picked, result, before, qual, workVars, srcVars, logVars, copyVars>>

\* ProxyPool.UpdateProxyStatus(proxy, false, speed) after a failure report.
UpdateProxyStatus(p) ==
  /\ pc[p] = "status"
  /\ rows' = IF Live(rows, rep[p].proxy.id)
             THEN [rows EXCEPT ![rep[p].proxy.id].available = FALSE,
                               ![rep[p].proxy.id].speed = rep[p].speed,
                               ![rep[p].proxy.id].lastCheck = now]
             ELSE rows
  /\ pc' = [pc EXCEPT ![p] = "idle"]
  /\ rep' = [rep EXCEPT ![p] = NoReport]
  /\ UNCHANGED <<passed, maxFailCount, clockVars, leaseVars, optVars, cronVars, validVars, fetchVars, poolVars,
                 lastUsed, useCount, failCount, weights, cooldown, readers, wOwner,
                 streak, found, reports, task, snap, picked, result, before, qual, workVars, srcVars, logVars, copyVars>>

(* ------------------------ leases and optimisation --------------------- *)

\* Variant: the acquisition test lets one more user in.
AcquiredLoose(c) ==
  IF ~c.available \/ c.concurrentUse > c.maxConcurrent THEN c
  ELSE [c EXCEPT !.concurrentUse = @ + 1, !.useCount = @ + 1]

\* Proxy.AcquireProxy: the value after the call (unchanged when it returns
\* false).  LastUsedAt, which nothing reads, is left out of the record.
Acquired(c) ==
  IF ~c.available \/ c.concurrentUse >= c.maxConcurrent THEN c
  ELSE [c EXCEPT !.concurrentUse = @ + 1, !.useCount = @ + 1]

\* Proxy.ReleaseProxy: the value after the call.
Released(c) ==
  IF c.concurrentUse > 0 THEN [c EXCEPT !.concurrentUse = @ - 1] ELSE c

\* Proxy.UpdateScore, in thousandths of a point (float64 in the code).
UpdateScore(c) ==
  [c EXCEPT !.score =
     (GetSuccessRate(c) * 7) \div 10
     + ((IF c.speed > 0 THEN Max(0, 100000 - c.speed * 100) ELSE 100000) * 3) \div 10]

\* Proxy.UpdateStats: counters, running mean of the speed, check time, score.
UpdateStats(c, ok, ms) ==
  UpdateScore([c EXCEPT
     !.success = IF ok THEN @ + 1 ELSE @,
     !.failure = IF ok THEN @ ELSE @ + 1,
     !.speed = IF ~ok THEN @
               ELSE IF c.speed = 0 THEN ms
               ELSE (c.speed * (c.useCount - 1) + ms) \div c.useCount,
     !.lastCheck = now])

\* LoadBalancer.refreshProxyCache / the query of models.ScheduleProxy: an
\* available row is read into a Go value.
refreshProxyCache(h) ==
  /\ \E i \in LiveIds(rows) : rows[i].available /\ mem' = [mem EXCEPT ![h] = rows[i]]
  /\ UNCHANGED <<storeVars, clockVars, validVars, fetchVars, poolVars, schedVars, cronVars, optVars, workVars, srcVars, logVars>>

\* A caller asks for the use of the value it holds.
AcquireProxy(h) ==
  /\ mem[h] # NoCopy
  /\ mem[h].useCount < MaxUses
  /\ mem' = [mem EXCEPT ![h] = Acquired(mem[h])]
  /\ UNCHANGED <<storeVars, clockVars, validVars, fetchVars, poolVars, schedVars, cronVars, optVars, workVars, srcVars, logVars>>

\* Proxy.UpdateStats, line 134: with a speed on record a success divides by
\* int64(p.UseCount); at use_count 0 the integer division panics.
DividesByZero(c, ok) == ok /\ c.speed # 0 /\ c.useCount = 0

\* models.ReleaseScheduledProxy: release, update the statistics, save.  A
\* call that panics in UpdateStats changes nothing.
ReleaseScheduledProxy(h) ==
  /\ mem[h] # NoCopy
  /\ mem[h].success + mem[h].failure < MaxStats
  /\ \E ok \in BOOLEAN, ms \in ProbeTimes :
       /\ ~DividesByZero(mem[h], ok)
       /\ rows' = DbSave(rows, UpdateStats(Released(mem[h]), ok, ms))
       /\ mem' = [mem EXCEPT ![h] = SavedCopy(rows, UpdateStats(Released(mem[h]), ok, ms))]
  /\ UNCHANGED <<passed, maxFailCount, clockVars, validVars, fetchVars, poolVars,
                 schedVars, cronVars, optVars, workVars, srcVars, logVars>>

\* Proxy.ResetStats on the value a caller holds.
ResetStats(h) ==
  /\ mem[h] # NoCopy
  /\ mem' = [mem EXCEPT ![h] = [@ EXCEPT !.success = 0, !.failure = 0, !.speed = 0,
                                         !.score = 0, !.useCount = 0,
                                         !.concurrentUse = 0, !.lastCheck = now]]
  /\ UNCHANGED <<storeVars, clockVars, validVars, fetchVars, poolVars, schedVars, cronVars, optVars, workVars, srcVars, logVars>>

\* models.OptimizePool: delete by the stored score and the success rate (the
\* success_rate filter read as the rate derived from the counters), recompute
\* and save the score of every row left, raise max_concurrent where the
\* score is 80 or more.
OptimizePool(rs) ==
  [i \in 1..Len(rs) |->
     IF rs[i].deleted THEN rs[i]
     ELSE IF rs[i].score < 30000 \/ GetSuccessRate(rs[i]) < 20000
     THEN Tombstone(i)
     ELSE IF UpdateScore(rs[i]).score >= 80000
     THEN [UpdateScore(rs[i]) EXCEPT !.maxConcurrent = BoostedMaxConcurrent]
     ELSE UpdateScore(rs[i])]

\* ProxyPool.optimizePool / the optimise cron job.
optimizePool ==
  /\ rows' = OptimizePool(rows)
  /\ UNCHANGED <<passed, maxFailCount, clockVars, validVars, fetchVars, poolVars,
                 schedVars, leaseVars, optVars, cronVars, workVars, srcVars, logVars, copyVars>>

\* The same job statement by statement, as it runs next to other writers.
\* The DELETE of line 594.
optimizeDelete ==
  /\ ojob.at = "idle"
  /\ rows' = [i \in 1..Len(rows) |->
                IF ~rows[i].deleted /\ (rows[i].score < 30000 \/ GetSuccessRate(rows[i]) < 20000)
                THEN Tombstone(i) ELSE rows[i]]
  /\ ojob' = [ojob EXCEPT !.at = "find"]
  /\ UNCHANGED <<passed, maxFailCount, clockVars, validVars, fetchVars, poolVars,
                 schedVars, leaseVars, cronVars, workVars, srcVars, logVars, copyVars>>

\* db.Find of line 600: the job's own copies of the live rows.
optimizeFind ==
  /\ ojob.at = "find"
  /\ ojob' = [at |-> "save", loaded |-> SelectSeq(rows, LAMBDA r : ~r.deleted)]
  /\ UNCHANGED <<storeVars, clockVars, validVars, fetchVars, poolVars, schedVars,
                 leaseVars, cronVars, workVars, srcVars, logVars, copyVars>>

\* One turn of the loop of lines 604-609: UpdateScore on the copy, then Save.
optimizeSave ==
  /\ ojob.at = "save"
  /\ ojob.loaded # <<>>
  /\ rows' = DbSave(rows, UpdateScore(Head(ojob.loaded)))
  /\ ojob' = [ojob EXCEPT !.loaded = Tail(@)]
  /\ UNCHANGED <<passed, maxFailCount, clockVars, validVars, fetchVars, poolVars,
                 schedVars, leaseVars, cronVars, workVars, srcVars, logVars, copyVars>>

\* The UPDATE of lines 612-614, which ends the job.
optimizeBoost ==
  /\ ojob.at = "save"
  /\ ojob.loaded = <<>>
  /\ rows' = [i \in 1..Len(rows) |->
                IF ~rows[i].deleted /\ rows[i].score >= 80000
                THEN [rows[i] EXCEPT !.maxConcurrent = BoostedMaxConcurrent] ELSE rows[i]]
  /\ ojob' = NoJob
  /\ UNCHANGED <<passed, maxFailCount, clockVars, validVars, fetchVars, poolVars,
                 schedVars, leaseVars, cronVars, workVars, srcVars, logVars, copyVars>>

\* PUT /api/proxy/:id: Server.updateProxy hands the posted availability and
\* speed to ProxyPool.UpdateProxyStatus, which writes them and the check time.
PutProxy(i, a, ms) ==
  /\ rows' = [rows EXCEPT ![i].available = a, ![i].speed = ms, ![i].lastCheck = now]
  /\ UNCHANGED <<passed, maxFailCount, clockVars, validVars, fetchVars, poolVars,
                 schedVars, leaseVars, optVars, cronVars, workVars, srcVars, logVars, copyVars>>

updateProxy ==
  \E i \in LiveIds(rows), a \in BOOLEAN, ms \in ReportSpeeds : PutProxy(i, a, ms)

\* The same request from a consumer that puts the proxy it reports on back
\* into service.
restoreProxy ==
  \E i \in LiveIds(rows) \cap ReportIds, ms \in ReportSpeeds : PutProxy(i, TRUE, ms)

(* ------------------------------ scores --------------------------------- *)

\* Speeds and use counts around the points where a part of a score reaches 0:
\* 1000 ms in Proxy.UpdateScore, 5000 ms and 10000 uses in calculateScore.
ScoreSpeeds == {0, 1, 999, 1000, 1001, 4999, 5000, 5001, 6000}
ScoreUses == {0, 1, 9999, 10000, 10001}

\* A models.Proxy value with counters a caller can come to hold.
ScoreInputs ==
  {[Candidate("e1", TypeTemp, FALSE) EXCEPT !.success = s, !.failure = f, !.speed = ms,
                                            !.useCount = u] :
     s \in 0..MaxStats, f \in 0..MaxStats, ms \in ScoreSpeeds, u \in ScoreUses}

\* A caller obtains such a value.
BindProxy(h) ==
  /\ mem[h] = NoCopy
  /\ \E c \in ScoreInputs : mem' = [mem EXCEPT ![h] = c]
  /\ UNCHANGED <<storeVars, clockVars, validVars, fetchVars, poolVars, schedVars, cronVars, optVars, workVars, srcVars, logVars>>

\* Proxy.UpdateScore on the value.
ScoreProxy(h) ==
  /\ mem[h] # NoCopy
  /\ mem' = [mem EXCEPT ![h] = UpdateScore(@)]
  /\ UNCHANGED <<storeVars, clockVars, validVars, fetchVars, poolVars, schedVars, cronVars, optVars, workVars, srcVars, logVars>>

\* ProxyScheduler.updateProxyScores on the value.
updateProxyScores(h) ==
  /\ mem[h] # NoCopy
  /\ mem' = [mem EXCEPT ![h] = [@ EXCEPT !.score = calculateScore(mem[h])]]
  /\ UNCHANGED <<storeVars, clockVars, validVars, fetchVars, poolVars, schedVars, cronVars, optVars, workVars, srcVars, logVars>>

(* ------------------------------ expiry --------------------------------- *)

\* Variant: a proxy expires on reaching its time to live.
IsExpiredAtTtl(c) ==
  CASE c.type = TypeTemp -> now - c.lastCheck >= 30 * 60
    [] c.type = TypeLong -> now - c.lastCheck >= 24 * 3600
    [] OTHER -> now - c.lastCheck >= 3600

\* Proxy.IsExpired, with time.Since(p.LastCheck) in seconds.
IsExpired(c) ==
  CASE c.type = TypeTemp -> now - c.lastCheck > 30 * 60
    [] c.type = TypeLong -> now - c.lastCheck > 24 * 3600
    [] OTHER -> now - c.lastCheck > 3600

\* models.CleanupExpired: load every row, delete the expired ones by key.
CleanupExpired(rs) ==
  [i \in 1..Len(rs) |->
     IF ~rs[i].deleted /\ IsExpired(rs[i]) THEN Tombstone(i) ELSE rs[i]]

\* ProxyPool.cleanupExpiredProxies / the cleanup cron job.
cleanupExpiredProxies ==
  /\ rows' = CleanupExpired(rows)
  /\ UNCHANGED <<passed, maxFailCount, clockVars, validVars, fetchVars, poolVars,
                 schedVars, leaseVars, optVars, cronVars, workVars, srcVars, logVars, copyVars>>

\* Time passes between two jobs: up to and just past each time to live.
Elapse ==
  /\ ticks < MaxTicks
  /\ \E d \in {1800, 1801, 3600, 3601, 86400, 86401} : now' = now + d
  /\ ticks' = ticks + 1
  /\ UNCHANGED <<storeVars, validVars, fetchVars, poolVars, schedVars, leaseVars, optVars, cronVars, workVars, srcVars, logVars, copyVars>>

(* ------------------------------- cron ---------------------------------- *)

\* Seconds between two firings of a job's schedule: the expressions of
\* main's Config, with the validation made to fire every second.
CronInterval(j) ==
  CASE j = "paid" -> 30
    [] j = "free" -> 300
    [] j = "validate" -> 1
    [] j = "cleanup" -> 3600
    [] OTHER -> 21600

\* Variant: the entry runs its job on every firing.
RunAlways(r, t) ==
  [r EXCEPT !.ticks = @ + 1, !.active = @ + 1, !.since = t]

\* cron.SkipIfStillRunning around one entry: a firing runs the job when no
\* run of it is in progress and is dropped otherwise.
SkipIfStillRunning(r, t) ==
  IF r.active = 0 THEN [r EXCEPT !.ticks = @ + 1, !.active = 1, !.since = t]
  ELSE [r EXCEPT !.ticks = @ + 1, !.skipped = @ + 1]

\* The schedule of job j fires: the entry, wrapped by the chain cron.New was
\* given, starts in a goroutine of its own.
CronTick(j) ==
  /\ cron[j].ticks * CronInterval(j) <= uptime
  /\ cron' = [cron EXCEPT ![j] = SkipIfStillRunning(cron[j], uptime)]
  /\ UNCHANGED <<storeVars, clockVars, validVars, fetchVars, poolVars, schedVars,
                 leaseVars, optVars, uptime, workVars, srcVars, logVars, copyVars>>

\* The function registered for job j returns.
JobDone(j) ==
  /\ cron[j].active > 0
  /\ cron' = [cron EXCEPT ![j].active = @ - 1, ![j].done = @ + 1, ![j].since = NoTime]
  /\ UNCHANGED <<storeVars, clockVars, validVars, fetchVars, poolVars, schedVars,
                 leaseVars, optVars, uptime, workVars, srcVars, logVars, copyVars>>

\* A second passes once every schedule that was due has fired.
Second ==
  /\ uptime < MaxSeconds
  /\ \A j \in CronJobs : cron[j].ticks * CronInterval(j) > uptime
  /\ uptime' = uptime + 1
  /\ UNCHANGED <<storeVars, clockVars, validVars, fetchVars, poolVars, schedVars,
                 leaseVars, optVars, cron, workVars, srcVars, logVars, copyVars>>

\* Logical time passes.
Tick ==
  /\ ticks < MaxTicks
  /\ \E d \in TickSteps : now' = now + d
  /\ ticks' = ticks + 1
  /\ UNCHANGED <<storeVars, validVars, fetchVars, poolVars, schedVars, leaseVars, optVars, cronVars, workVars, srcVars, logVars, copyVars>>

(* --------------------------- initial states ---------------------------- *)

InitSched ==
  /\ lastUsed = [i \in Ids |-> NoTime]
  /\ useCount = [i \in Ids |-> 0]
  /\ failCount = [i \in Ids |-> 0]
  /\ weights = [i \in Ids |-> 0]
  /\ cooldown = [i \in Ids |-> NoTime]
  /\ readers = {}
  /\ wOwner = None
  /\ pc = [p \in Procs |-> "idle"]
  /\ task = [p \in SelProcs |-> NoTask]
  /\ snap = [p \in SelProcs |-> <<>>]
  /\ picked = [p \in SelProcs |-> 0]
  /\ result = [p \in SelProcs |-> None]
  /\ before = [p \in SelProcs |-> 0]
  /\ qual = [p \in SelProcs |-> NoQual]
  /\ rep = [p \in RepProcs |-> NoReport]
  /\ streak = [i \in Ids |-> 0]
  /\ found = [i \in Ids |-> NoTime]
  /\ reports = 0

InitIdle ==
  /\ now = 0
  /\ ticks = 0
  /\ vrun = FALSE
  /\ vruns = 0
  /\ vjobs = {}
  /\ fpc = [k \in FetchJobs |-> "idle"]
  /\ fbatch = [k \in FetchJobs |-> <<>>]
  /\ fcur = [k \in FetchJobs |-> NoCopy]
  /\ ppc = "idle"
  /\ pcopy = NoCopy
  /\ pstart = 0
  /\ pcalls = 0
  /\ mem = [h \in Callers |-> NoCopy]
  /\ leases = [h \in Callers |-> 0]
  /\ ojob = NoJob
  /\ cron = [j \in CronJobs |-> NoRun]
  /\ uptime = 0
  /\ scrape = NoScrape
  /\ usage = <<>>

\* A validator built with maxWorkers = n whose ValidateAll has not been called.
InitValidator(n) ==
  /\ maxWorkers = n
  /\ vapc = "idle"
  /\ totalCount = 0
  /\ unsent = <<>>
  /\ jobs = <<>>
  /\ jobsClosed = FALSE
  /\ results = <<>>
  /\ resultsClosed = FALSE
  /\ worker = [w \in Workers |-> NoWorker]
  /\ wg = 0
  /\ successCount = 0
  /\ failedCount = 0
  /\ vaRet = None
  /\ validated = [i \in Ids |-> 0]
  /\ errored = 0
  /\ vaRuns = 0

InitJobs ==
  /\ InitIdle
  /\ InitValidator(MaxWorkers)

\* The service starts on an empty table with the configured max_fail_count.
InitStore ==
  /\ rows = <<>>
  /\ passed = {}
  /\ maxFailCount \in 1..MaxFail
  /\ InitJobs
  /\ InitSched

\* A table as ingestion leaves it, and a caller of the pool's validation.
InitPool ==
  /\ InitJobs
  /\ rows \in {BatchCreateWithDuplicateCheck(<<>>, cs) :
                 cs \in Batches("paid") \cup Batches("free")}
  /\ passed = {}
  /\ maxFailCount \in 1..MaxPoolFail
  /\ InitSched

NextStore ==
  \/ ValidateAll
  \/ ValidateWorker
  \/ \E k \in FetchJobs : FetchProxies(k)
  \/ \E k \in FetchJobs : AddProxyCheck(k)
  \/ \E k \in FetchJobs : AddProxyValidate(k)
  \/ \E k \in FetchJobs : AddProxyCreate(k)

\* Ingestion and validation: fetch jobs, bulk validation, pool validation.
SpecStore == InitStore /\ [][NextStore]_vars

NextPool ==
  \/ PoolLoad
  \/ PoolValidate
  \/ PoolSave
  \/ PoolDone

\* Validation of stored proxies through the pool facade.
SpecPool == InitPool /\ [][NextPool]_vars

\* A table as one ingested batch and one validation of its first row leave it.
InitUpsert ==
  /\ InitJobs
  /\ InitSched
  /\ passed = {}
  /\ maxFailCount \in 1..MaxFail
  /\ \E cs \in Batches("paid") \cup Batches("free"), ok \in BOOLEAN, ms \in ProbeTimes :
       LET t == BatchCreateWithDuplicateCheck(<<>>, cs)
       IN  rows = ValidatedRows(t, t[1], ok, ms)

NextUpsert == \E k \in FetchJobs : SaveProxies(k)

\* The sources' dedup upsert on tables whose rows validation has marked.
SpecUpsert == InitUpsert /\ [][NextUpsert]_vars

NextValidate ==
  \/ ValidateAll
  \/ ValidateWorker
  \/ AddProxy
  \/ RemoveProxy

\* The bulk validation job between a client's additions and removals, from
\* the empty table.
SpecValidate == InitStore /\ [][NextValidate]_vars

\* A table holding one ingested proxy, which its first validation accepted.
InitLease ==
  /\ InitJobs
  /\ InitSched
  /\ maxFailCount = MaxFail
  /\ \E c \in SourceCandidates("paid") \cup SourceCandidates("free"), ms \in ProbeTimes :
       /\ rows = ValidatedRows(DbCreate(<<>>, c), CreatedCopy(<<>>, c), TRUE, ms)
       /\ passed = {c.ep}

NextLease ==
  \/ \E h \in Holders : refreshProxyCache(h) /\ UNCHANGED leases
  \/ \E h \in Holders : AcquireProxy(h) /\ UNCHANGED leases
  \/ \E h \in Holders : ReleaseScheduledProxy(h) /\ UNCHANGED leases
  \/ \E h \in Holders : ResetStats(h) /\ UNCHANGED leases
  \/ optimizePool

\* The lease API of the models package next to the optimise job.
SpecLease == InitLease /\ [][NextLease]_vars

\* History: a successful acquisition is one more lease on the value.
Leased(h) == [leases EXCEPT ![h] = IF Acquired(mem[h]) # mem[h] THEN @ + 1 ELSE @]

\* History: ReleaseScheduledProxy hands back one lease, if there is one.
Unleased(h) == [leases EXCEPT ![h] = IF @ > 0 THEN @ - 1 ELSE 0]

\* The value the LoadBalancer's cache holds for the row: the one read last.
Cached(h) == mem[h] # NoCopy /\ (h = "h1" => mem["h2"] = NoCopy)

\* LoadBalancer.refreshProxyCache replaces the cache by values read from the
\* store; the values it held before stay with the callers that acquired them.
RefreshCache(h) ==
  /\ mem[h] = NoCopy
  /\ h = "h2" => mem["h1"] # NoCopy
  /\ refreshProxyCache(h)
  /\ UNCHANGED leases

\* LoadBalancer.GetProxy: AcquireProxy on the cached value.
GetProxy(h) ==
  /\ Cached(h)
  /\ AcquireProxy(h)
  /\ leases' = Leased(h)

\* A caller gives back a lease it holds.
ReleaseLease(h) ==
  /\ leases[h] > 0
  /\ ReleaseScheduledProxy(h)
  /\ leases' = Unleased(h)

NextCopies ==
  \/ \E h \in Callers : RefreshCache(h)
  \/ \E h \in Callers : GetProxy(h)
  \/ \E h \in Callers : ReleaseLease(h)

\* The LoadBalancer over one refresh of its cache: two values of one row in
\* callers' hands.
SpecCopies == InitLease /\ [][NextCopies]_vars

NextMaintain ==
  \/ ValidateAll
  \/ ValidateWorker
  \/ \E h \in Holders : refreshProxyCache(h) /\ UNCHANGED leases
  \/ \E h \in Holders : AcquireProxy(h) /\ UNCHANGED leases
  \/ \E h \in Holders : ReleaseScheduledProxy(h) /\ UNCHANGED leases
  \/ optimizePool

\* Validation, leases with their reports and the optimise job on a table as
\* ingestion leaves it.
SpecMaintain == InitPool /\ [][NextMaintain]_vars

NextOptimise ==
  \/ NextLease
  \/ updateProxy

\* The same next to the status updates of the HTTP API.
SpecOptimise == InitLease /\ [][NextOptimise]_vars

NextScrape ==
  \/ StartFetch
  \/ fetchFromURL
  \/ ReturnFetch

\* A scrape source called again and again on the table it fills.
SpecScrape == InitStore /\ [][NextScrape]_vars

\* The table after the proxies of q were posted one by one (ProxyPool.AddProxy).
RECURSIVE Posted(_)
Posted(q) == IF q = <<>> THEN <<>> ELSE DbCreate(Posted(SubSeq(q, 1, Len(q) - 1)), q[Len(q)])

\* A table of up to MaxRows proxies posted with one body (the endpoint does
\* not matter to the worker pool), the validator built
\* with any pool size and with the smallest or the largest max_fail_count.
InitWorkers ==
  /\ InitIdle
  /\ rows \in {Posted([k \in 1..n |-> c]) : n \in 0..MaxRows, c \in {b \in ClientProxies : b.ep = "e1"}}
  /\ passed = {}
  /\ maxFailCount \in {1, MaxFail}
  /\ \E n \in 1..MaxWorkers : InitValidator(n)
  /\ InitSched

NextWorkers ==
  \/ StartValidateAll
  \/ SendJob
  \/ CloseJobs
  \/ \E w \in Workers : WorkerTake(w)
  \/ \E w \in Workers : WorkerValidate(w)
  \/ \E w \in Workers : WorkerExit(w)
  \/ CloseResults
  \/ Collect
  \/ ReturnValidateAll

\* ValidateAll with its worker pool.
SpecWorkers == InitWorkers /\ [][NextWorkers]_vars

\* The goroutines of ValidateAll are scheduled fairly.
FairWorkers ==
  /\ SpecWorkers
  /\ WF_vars(SendJob \/ CloseJobs \/ Collect \/ ReturnValidateAll)
  /\ WF_vars(CloseResults)
  /\ \A w \in Workers : WF_vars(WorkerTake(w) \/ WorkerValidate(w) \/ WorkerExit(w))

\* A table holding one proxy that passed its first validation and that a
\* caller of the lease API then used once with success, so that it has a
\* score and a success rate on record.
InitRace ==
  /\ InitJobs
  /\ InitSched
  /\ maxFailCount = MaxFail
  /\ \E c \in SourceCandidates("paid") \cup SourceCandidates("free"), ms \in ProbeTimes :
       LET first == ValidatedRows(DbCreate(<<>>, c), CreatedCopy(<<>>, c), TRUE, ms)
       IN  /\ rows = DbSave(first, UpdateStats(Released(Acquired(first[1])), TRUE, ms))
           /\ passed = {c.ep}

NextRace ==
  \/ ValidateAll
  \/ ValidateWorker
  \/ restoreProxy
  \/ Tick
  \/ optimizeDelete
  \/ optimizeFind
  \/ optimizeSave
  \/ optimizeBoost

\* The writers of one row side by side: a bulk validation, a status update
\* and the optimise job statement by statement.
SpecRace == InitRace /\ [][NextRace]_vars

\* A table of two ingested proxies of any two types.
InitCleanup ==
  /\ InitJobs
  /\ InitSched
  /\ passed = {}
  /\ maxFailCount = MaxFail
  /\ \E t1, t2 \in {TypeTemp, TypeLong, TypeAnon, TypeHighAnon} :
       rows = BatchCreateWithDuplicateCheck(<<>>,
                <<Candidate("e1", t1, t1 # TypeTemp), Candidate("e2", t2, t2 # TypeTemp)>>)

NextCleanup ==
  \/ cleanupExpiredProxies
  \/ updateProxy
  \/ Elapse

\* The cleanup job on proxies of different ages.
SpecCleanup == InitCleanup /\ [][NextCleanup]_vars

NextCron ==
  \/ \E j \in CronJobs : CronTick(j)
  \/ \E j \in CronJobs : JobDone(j)
  \/ Second

\* The five recurring jobs under the cron scheduler.
SpecCron == InitStore /\ [][NextCron]_vars

NextIngest ==
  \/ NextStore
  \/ AddProxy

\* Every way a row gets into the table: the fetch jobs and POST /api/proxy,
\* next to the bulk validation.
SpecIngest == InitStore /\ [][NextIngest]_vars

\* The scheduler serves a table that ingestion has filled.
Init ==
  /\ InitJobs
  /\ rows \in {BatchCreateWithDuplicateCheck(<<>>, <<Candidate("e1", TypeTemp, FALSE), b>>) :
                 b \in SourceCandidates("paid") \cup SourceCandidates("free")}
  /\ Len(rows) = 2
  /\ passed = {}
  /\ maxFailCount = MaxFail
  /\ InitSched

Next ==
  \/ \E p \in SelProcs : ScheduleProxy(p)
  \/ \E p \in SelProcs : weightedSchedule(p)
  \/ \E p \in SelProcs : sortedSchedule(p)
  \/ \E p \in SelProcs : defaultSchedule(p)
  \/ \E p \in SelProcs : siteAdaptiveSchedule(p)
  \/ \E p \in SelProcs : Return(p)
  \/ \E p \in Procs : LockStats(p)
  \/ \E p \in Procs : updateProxyStats(p)
  \/ \E p \in RepProcs : ReportProxyStatus(p)
  \/ \E p \in RepProcs : UpdateProxyStatus(p)
  \/ ValidateAll
  \/ ValidateWorker
  \/ Tick

\* Dispense and feedback while the validation job runs.
Spec == Init /\ [][Next]_vars

NextSched ==
  \/ \E p \in SelProcs : ScheduleProxy(p)
  \/ \E p \in SelProcs : weightedSchedule(p)
  \/ \E p \in SelProcs : sortedSchedule(p)
  \/ \E p \in SelProcs : defaultSchedule(p)
  \/ \E p \in SelProcs : siteAdaptiveSchedule(p)
  \/ \E p \in SelProcs : Return(p)
  \/ \E p \in Procs : LockStats(p)
  \/ \E p \in Procs : updateProxyStats(p)
  \/ \E p \in RepProcs : ReportProxyStatus(p)
  \/ \E p \in RepProcs : UpdateProxyStatus(p)
  \/ Tick

\* Dispense and feedback alone.
SpecSched == Init /\ [][NextSched]_vars

NextRecheck ==
  \/ NextPool
  \/ Tick

\* The same while time passes between the calls.
SpecRecheck == InitPool /\ [][NextRecheck]_vars

NextScore ==
  \/ \E h \in Holders : BindProxy(h) /\ UNCHANGED leases
  \/ \E h \in Holders : ScoreProxy(h) /\ UNCHANGED leases
  \/ \E h \in Holders : updateProxyScores(h) /\ UNCHANGED leases

\* The two score computations on one value.
SpecScore == InitStore /\ [][NextScore]_vars

NextFeedback ==
  \/ NextSched
  \/ restoreProxy

\* Dispense and feedback, with a client that marks proxies through
\* PUT /api/proxy/:id.
SpecFeedback == Init /\ [][NextFeedback]_vars

\* A request handler runs in a goroutine of its own, which the Go scheduler
\* keeps running while it has a step to take.
SelStep(p) ==
  \/ weightedSchedule(p)
  \/ sortedSchedule(p)
  \/ defaultSchedule(p)
  \/ siteAdaptiveSchedule(p)
  \/ LockStats(p)
  \/ updateProxyStats(p)
  \/ Return(p)

RepStep(p) ==
  \/ LockStats(p)
  \/ updateProxyStats(p)
  \/ UpdateProxyStatus(p)

FairSched ==
  /\ SpecSched
  /\ \A p \in SelProcs : WF_vars(SelStep(p))
  /\ \A p \in RepProcs : WF_vars(RepStep(p))

(* ------------------------------- claims -------------------------------- *)

SnapCopy(p, i) == CHOOSE c \in {snap[p][k] : k \in 1..Len(snap[p])} : c.id = i

\* C1: every call of ScheduleProxy returns and releases the scheduler lock: no
\* selection waits for the scheduler's write lock while it still holds the
\* read lock it took on entry (a wait that can never end), so later
\* selections and feedback reports can proceed.
C1_ScheduleReturns ==
  \A p \in SelProcs : ~(wOwner = p /\ p \in readers)

\* C2: every row present in the store has fail_count <= max_fail_count, and
\* none sits at the maximum: a failed validation that reaches it deletes the
\* row, any other failed validation persists the incremented count.
C2_FailCountBounded ==
  \A i \in LiveIds(rows) :
    /\ rows[i].failCount <= maxFailCount
    /\ rows[i].failCount # maxFailCount

\* C2 witness: a failed validation has evicted one row while another stays
\* stored.
C2_Witness ==
  /\ \E i \in 1..Len(rows) : rows[i].deleted
  /\ LiveIds(rows) # {}

\* C3: with max_fail_count = N and a stored proxy with no failure on record
\* that every probe rejects, after k < N calls in a row of the pool's
\* ValidateProxy the row is stored with fail_count = k and available = false,
\* and after the N-th call (and any later one) the row is absent.
C3_EvictedAfterN ==
  (ppc = "ready" /\ pstart = 0 /\ pcalls >= 1) =>
    IF pcalls < maxFailCount
    THEN /\ Live(rows, pcopy.id)
         /\ rows[pcopy.id].failCount = pcalls
         /\ ~rows[pcopy.id].available
    ELSE ~Live(rows, pcopy.id)

\* C3 witness: max_fail_count = 3, three rejected calls, the row is gone.
C3_Witness ==
  /\ ppc = "ready" /\ pstart = 0
  /\ maxFailCount = 3 /\ pcalls = 3
  /\ pcopy.id # 0 /\ ~Live(rows, pcopy.id)

\* C4: a row exists in the store only for an endpoint that has passed a
\* validation; raw ingestion creates none.
C4_CreatedAfterValidation ==
  \A i \in LiveIds(rows) : rows[i].ep \in passed

\* C5: no strategy settles on a proxy whose cooldown is still running when
\* the strategy looks at it, and a selection whose snapshot holds only such
\* proxies ends with NoQualifiedProxy.
C5_CooldownRespected ==
  \A p \in SelProcs :
    /\ picked[p] # 0 => picked[p] \notin qual[p].cooled
    /\ (pc[p] \notin {"idle", "strategy"} /\ snap[p] # <<>>
          /\ SeqIds(snap[p]) \subseteq qual[p].cooled)
         => result[p] = ErrNoQualifiedProxy

\* C6: a proxy of the snapshot (so of the task's type and available in the
\* store) whose cooldown has run out when a strategy looks at it is taken
\* as a qualified candidate.
C6_SelectableAfterCooldown ==
  \A p \in SelProcs : qual[p].expired \subseteq qual[p].ok

\* C7: a failure report adds one to the proxy's runtime fail_count and, when
\* the result is >= 3, sets its cooldown to now + 5 minutes; a success report
\* sets the runtime fail_count to 0 and removes the cooldown entry; the third
\* failure report in a row leaves the proxy in cooldown.
C7_Feedback ==
  [][\A p \in RepProcs :
       (pc[p] = "locked" /\ pc'[p] # "locked") =>
         LET i == rep[p].proxy.id IN
           /\ IF rep[p].success
              THEN failCount'[i] = 0 /\ cooldown'[i] = NoTime
              ELSE /\ failCount'[i] = failCount[i] + 1
                   /\ failCount'[i] >= 3 => cooldown'[i] = now + 300
                   /\ failCount'[i] < 3 => cooldown'[i] = cooldown[i]
           /\ (~rep[p].success /\ streak[i] >= 2) =>
                (cooldown'[i] # NoTime /\ now' < cooldown'[i])]_vars

\* C7 witness: three failure reports in a row have been applied to a proxy,
\* which is in cooldown until five minutes after the third.
C7_Witness ==
  \E i \in Ids : streak[i] = 3 /\ failCount[i] = 3 /\ cooldown[i] = now + 300

\* C8: the proxy a strategy settles on is a row of the snapshot the selection
\* read, available there and of the task's type, with runtime fail_count < 3
\* and no running cooldown when the strategy looks at it.
C8_ReturnedIsQualified ==
  \A p \in SelProcs :
    picked[p] # 0 =>
      /\ picked[p] \in SeqIds(snap[p])
      /\ SnapCopy(p, picked[p]).available
      /\ TypeOk(SnapCopy(p, picked[p]), task[p])
      /\ picked[p] \notin qual[p].failed
      /\ picked[p] \notin qual[p].cooled

\* C9: when the task sets require_anon the proxy a strategy settles on is
\* anonymous, and when it sets min_speed the proxy's speed is within it.
C9_AnonAndSpeed ==
  \A p \in SelProcs :
    picked[p] # 0 =>
      /\ task[p].requireAnon => SnapCopy(p, picked[p]).anonymous
      /\ task[p].minSpeed > 0 => SnapCopy(p, picked[p]).speed <= task[p].minSpeed

\* C10: a selection that settles on a proxy returns it with the proxy's
\* runtime use_count above its value before the selection and its last-used
\* time set.
C10_UseCountGrows ==
  \A p \in SelProcs :
    (pc[p] = "stats") ~>
      (/\ pc[p] = "ret"
       /\ result[p] = "proxy"
       /\ useCount[picked[p]] > before[p]
       /\ lastUsed[picked[p]] # NoTime)

\* C11: the table never holds two rows for one (ip, port), whatever the fetch
\* jobs, their re-runs and POST /api/proxy do.
C11_UniqueEndpoint ==
  \A i, j \in LiveIds(rows) : rows[i].ep = rows[j].ep => i = j

\* C12: the dedup upsert is idempotent on every table the service reaches:
\* a candidate applied twice, in two batches or twice inside one batch, leaves
\* the table that applying it once leaves.
C12_UpsertIdempotent ==
  \A c \in SourceCandidates("paid") \cup SourceCandidates("free") :
    /\ UpsertOne(UpsertOne(rows, c), c) = UpsertOne(rows, c)
    /\ BatchCreateWithDuplicateCheck(BatchCreateWithDuplicateCheck(rows, <<c>>), <<c>>)
         = BatchCreateWithDuplicateCheck(rows, <<c>>)
    /\ BatchCreateWithDuplicateCheck(rows, <<c, c>>)
         = BatchCreateWithDuplicateCheck(rows, <<c>>)

\* A source has just re-applied a candidate to the row its earlier run made.
C12_Witness ==
  \E k \in FetchJobs, i \in LiveIds(rows) :
    /\ fbatch[k] # <<>>
    /\ Head(fbatch[k]).id = 0
    /\ rows[i].ep = Head(fbatch[k]).ep
    /\ rows[i].source = Head(fbatch[k]).source
    /\ rows[i].failCount > 0

\* C13: a source's SaveProxies changes, in a row that exists for a fetched
\* (ip, port), only type, protocol, region, source and anonymous, which take
\* the values of the last candidate of the batch for it; every other field of
\* the row and every other row stay as they were.
C13_UpsertFrame ==
  [][\E k \in FetchJobs :
         LET cs == fbatch'[k]
             Hits(e) == {n \in 1..Len(cs) : cs[n].ep = e}
             Last(e) == cs[CHOOSE n \in Hits(e) : \A m \in Hits(e) : m <= n]
         IN  \A i \in 1..Len(rows) :
               rows'[i] = IF ~rows[i].deleted /\ Hits(rows[i].ep) # {}
                          THEN [rows[i] EXCEPT !.type = Last(rows[i].ep).type,
                                               !.protocol = Last(rows[i].ep).protocol,
                                               !.region = Last(rows[i].ep).region,
                                               !.source = Last(rows[i].ep).source,
                                               !.anonymous = Last(rows[i].ep).anonymous]
                          ELSE rows[i]]_vars

\* Both sources have met the same row, with a failed validation on record,
\* and the paid one has given it its own source after the free one.
C13_Witness ==
  \E i \in LiveIds(rows) :
    /\ fbatch["free"] # <<>> /\ Head(fbatch["free"]).id = 0
    /\ fbatch["paid"] # <<>> /\ Head(fbatch["paid"]).id = 0
    /\ Head(fbatch["free"]).ep = rows[i].ep
    /\ Head(fbatch["paid"]).ep = rows[i].ep
    /\ rows[i].source = Head(fbatch["paid"]).source
    /\ rows[i].source # Head(fbatch["free"]).source
    /\ rows[i].failCount > 0
    /\ ~rows[i].available

\* C14: every proxy value, stored or held in memory, has
\* 0 <= concurrent_use <= max_concurrent, whatever AcquireProxy,
\* ReleaseProxy, ResetStats and the optimise job do in whatever order.
C14_ConcurrentUseBounded ==
  /\ \A i \in LiveIds(rows) :
       0 <= rows[i].concurrentUse /\ rows[i].concurrentUse <= rows[i].maxConcurrent
  /\ \A h \in Holders :
       mem[h] # NoCopy =>
         0 <= mem[h].concurrentUse /\ mem[h].concurrentUse <= mem[h].maxConcurrent

\* A value at its cap of ten users, refused an eleventh.
C14_Witness ==
  \E h \in Holders :
    /\ mem[h] # NoCopy
    /\ mem[h].concurrentUse = DefaultMaxConcurrent
    /\ mem[h].maxConcurrent = DefaultMaxConcurrent
    /\ Acquired(mem[h]) = mem[h]

\* C16: whenever the optimise job runs, no row it leaves has a score below
\* 30 and every row it leaves stores the score derived from its own
\* success, failure and speed.
C16_OptimiseLeavesGoodScores ==
  \A i \in LiveIds(OptimizePool(rows)) :
    /\ OptimizePool(rows)[i].score >= 30000
    /\ OptimizePool(rows)[i].score = UpdateScore(OptimizePool(rows)[i]).score

\* C17: whenever the optimise job runs, every row it leaves has
\* max_concurrent 20 if its score is 80 or more and 10 otherwise.
C17_MaxConcurrentFollowsScore ==
  \A i \in LiveIds(OptimizePool(rows)) :
    OptimizePool(rows)[i].maxConcurrent =
      IF OptimizePool(rows)[i].score >= 80000 THEN BoostedMaxConcurrent
      ELSE DefaultMaxConcurrent

\* C15: no job overlaps itself: at most one run of a job is in progress, every
\* firing of its schedule either started a run or was skipped (none is kept
\* for later), and while the run that began at second 0 lasts no other run of
\* the job has completed and every later firing was skipped.
C15_NoSelfOverlap ==
  \A j \in CronJobs :
    /\ cron[j].active <= 1
    /\ cron[j].ticks = cron[j].done + cron[j].active + cron[j].skipped
    /\ (cron[j].active = 1 /\ cron[j].since = 0) =>
          (cron[j].done = 0 /\ cron[j].skipped = cron[j].ticks - 1)

\* Validation fires every second and its first run takes three: at second 3
\* one validation has completed, the firings at seconds 1 and 2 were skipped,
\* and the paid fetch that began at second 0 is still in progress.
C15_Witness ==
  /\ uptime = 3
  /\ cron["validate"] = [active |-> 0, ticks |-> 3, skipped |-> 2, done |-> 1,
                          since |-> NoTime]
  /\ cron["paid"].active = 1
  /\ cron["paid"].since = 0

\* C18: whenever the cleanup job runs it deletes exactly the proxies last
\* checked longer ago than their type allows (30 minutes for temp, 24 hours
\* for long, 1 hour for anon and high_anon) and leaves every other row as it
\* was.
C18_CleanupExact ==
  \A i \in 1..Len(rows) :
    LET age == now - rows[i].lastCheck
        ttl == IF rows[i].type = TypeTemp THEN 1800
               ELSE IF rows[i].type = TypeLong THEN 86400
               ELSE 3600
    IN  IF ~rows[i].deleted /\ age > ttl
        THEN ~Live(CleanupExpired(rows), i)
        ELSE CleanupExpired(rows)[i] = rows[i]

\* The job has deleted one proxy and kept another, checked since, that is
\* within its time to live.
C18_Witness ==
  \E i, j \in 1..Len(rows) :
    /\ rows[i].deleted
    /\ ~rows[j].deleted
    /\ rows[j].lastCheck > 0
    /\ CleanupExpired(rows) = rows


\* C19: a selection whose snapshot holds rows, none of which passes
\* isProxyQualified when the strategy looks at them, ends with
\* NoQualifiedProxy and settles on no proxy; neither that step nor the return
\* that follows changes the runtime use_count, last_used_at or fail_count of
\* any proxy.
C19_NoQualifiedSelectsNothing ==
  [][\A p \in SelProcs :
       /\ (/\ pc[p] = "strategy"
           /\ pc'[p] # "strategy"
           /\ snap[p] # <<>>
           /\ Qualified(snap[p], task[p]) = <<>>)
          => /\ result'[p] = ErrNoQualifiedProxy
             /\ picked'[p] = 0
             /\ UNCHANGED <<useCount, lastUsed, failCount>>
       /\ (/\ pc[p] = "ret"
           /\ result[p] = ErrNoQualifiedProxy
           /\ pc'[p] = "idle")
          => UNCHANGED <<useCount, lastUsed, failCount>>]_vars


C21_SuccessResetsFailCount ==
  [][/\ \A p \in RepProcs :
          (pc[p] = "locked" /\ pc'[p] # "locked" /\ rep[p].success)
            => failCount'[rep[p].proxy.id] = 0
     /\ \A p \in SelProcs :
          (/\ pc[p] = "strategy"
           /\ picked'[p] # 0
           /\ task[p].strategy = StrategyFailover
           /\ found[picked'[p]] # NoTime
           /\ streak[picked'[p]] = 0)
            => (failCount[picked'[p]] = 0 /\ failCount'[picked'[p]] = 0)
     /\ \A p \in SelProcs :
          (/\ picked[p] # 0
           /\ pc'[p] # pc[p]
           /\ task[p].strategy = StrategyFailover
           /\ failCount[picked[p]] = 0)
            => failCount'[picked[p]] = 0]_vars

\* C21 witness: the last report on proxy 1 was a success that found its
\* runtime fail_count above 0, its row has been put back into service, and a
\* failover selection has settled on it with its runtime fail_count at 0.
C21_Witness ==
  \E p \in SelProcs :
    /\ picked[p] = 1
    /\ task[p].strategy = StrategyFailover
    /\ streak[1] = 0
    /\ found[1] > 0
    /\ failCount[1] = 0


\* C22: the score of a proxy value is within [0, 100] (thousandths: 0 to
\* 100000) whichever of Proxy.UpdateScore and the scheduler's calculateScore
\* wrote it, and either computation applied to the value gives a score
\* within [0, 100], for non-negative success, failure, speed and use_count.
C22_ScoreInRange ==
  \A h \in Holders :
    mem[h] # NoCopy =>
      /\ mem[h].score \in 0..100000
      /\ UpdateScore(mem[h]).score \in 0..100000
      /\ calculateScore(mem[h]) \in 0..100000

\* C22 witness: a value with as many successes as failures, a speed past
\* both cut-off points and a use count past its cut-off point carries the
\* score the scheduler's computation gives it: 30, the speed and usage parts
\* being cut off at 0.
C22_Witness ==
  \E h \in Holders :
    /\ mem[h] # NoCopy
    /\ mem[h].success = 1
    /\ mem[h].failure = 1
    /\ mem[h].speed = 6000
    /\ mem[h].useCount = 10001
    /\ mem[h].score = 30000
    /\ UpdateScore(mem[h]).score = 35000


\* C23: a step that changes one of the scheduler's runtime maps (last-used
\* times, use counts, fail counts, weight cache, cooldowns) is taken by the
\* holder of the write lock, with no reader inside.
C23_MapsWrittenUnderLock ==
  [][<<lastUsed, useCount, failCount, weights, cooldown>>'
       # <<lastUsed, useCount, failCount, weights, cooldown>>
     => (wOwner # None /\ readers = {})]_vars


\* C24: ValidateProxy on a stored proxy. When the probe succeeds the row is
\* persisted as the value the caller holds, available, with fail_count 0
\* whatever it was, and last_check at the time of the validation. When the
\* probe fails the call returns no error and the value has available = false
\* and fail_count + 1; the row carries that change, with the speed and check
\* time of the probe and nothing else changed, unless the new fail_count has
\* reached max_fail_count, in which case the row is deleted.
C24_ValidationOutcome ==
  [][(ppc = "ready" /\ ppc' = "save" /\ pcopy.id # 0 /\ Live(rows, pcopy.id)) =>
       LET i == pcopy.id IN
         IF pcalls' = 0
         THEN /\ Live(rows', i)
              /\ rows'[i] = pcopy'
              /\ rows'[i].available
              /\ rows'[i].failCount = 0
              /\ rows'[i].lastCheck = now
         ELSE /\ ~ValidateErr(pcopy, FALSE)
              /\ ~pcopy'.available
              /\ pcopy'.failCount = rows[i].failCount + 1
              /\ IF rows[i].failCount + 1 >= maxFailCount
                 THEN ~Live(rows', i)
                 ELSE /\ Live(rows', i)
                      /\ rows'[i] = [rows[i] EXCEPT !.available = FALSE,
                                                    !.failCount = @ + 1,
                                                    !.speed = pcopy'.speed,
                                                    !.lastCheck = now]
              /\ \A j \in 1..Len(rows) : j # i => rows'[j] = rows[j]]_vars

\* C24 witness: a stored proxy ingested at time 0 has just passed a
\* validation at a later time: its row is available with fail_count 0 and
\* last_check at that time.
C24_Witness ==
  /\ ppc = "save"
  /\ pcalls = 0
  /\ now > 0
  /\ pcopy.id # 0
  /\ Live(rows, pcopy.id)
  /\ rows[pcopy.id].available
  /\ rows[pcopy.id].failCount = 0
  /\ rows[pcopy.id].lastCheck = now


\* C25: once a failure report that left the proxy's runtime fail_count below
\* 3 has been applied in full, a selection for a task of the proxy's type
\* has the proxy among its qualified candidates.
C25_ReadyAfterTransientFailure ==
  \A i \in LiveIds(rows) \cap ReportIds :
    (/\ \A p \in RepProcs : pc[p] = "idle"
     /\ streak[i] >= 1
     /\ failCount[i] < CooldownFailures)
    => \A t \in Tasks :
         t.ptype = rows[i].type =>
           i \in SeqIds(Qualified(GetProxies(rows, t.ptype, QueryLimit), t))

\* C26: writers of one row are serialised.  Every save of the optimise job
\* and every validation leaves the table as if the writer had worked on the
\* row as it is now, not on the copy it read earlier: the optimise job
\* changes the score of the current row and nothing else (and leaves a row
\* deleted in the meantime deleted), and a validation's outcome is computed
\* from the current row.
C26_NoLostUpdate ==
  [][/\ (ojob.at = "save" /\ ojob.loaded # <<>> /\ ojob'.loaded = Tail(ojob.loaded))
          => LET i == Head(ojob.loaded).id
             IN  IF Live(rows, i) THEN rows' = DbSave(rows, UpdateScore(rows[i]))
                 ELSE rows' = rows
     /\ \A c \in vjobs \ vjobs' :
          Live(rows, c.id)
            => \E ok \in BOOLEAN, ms \in ProbeTimes : rows' = ValidatedRows(rows, rows[c.id], ok, ms)]_vars

\* C27: a roundrobin selection settles on a qualified candidate whose runtime
\* last_used_at is the smallest among the qualified candidates (never used
\* counts as smallest), and among those that tie on it, on the smallest id.
C27_RoundRobinOldestSmallestId ==
  [][\A p \in SelProcs :
       (pc[p] = "strategy" /\ pc'[p] = "stats" /\ task[p].strategy = StrategyRoundRobin)
         => LET ok == SeqIds(Qualified(snap[p], task[p]))
            IN  /\ picked'[p] \in ok
                /\ \A i \in ok : lastUsed[picked'[p]] <= lastUsed[i]
                /\ \A i \in ok : lastUsed[picked'[p]] = lastUsed[i] => picked'[p] <= i]_vars

\* The first half of C27 alone.
RoundRobinOldest ==
  [][\A p \in SelProcs :
       (pc[p] = "strategy" /\ pc'[p] = "stats" /\ task[p].strategy = StrategyRoundRobin)
         => LET ok == SeqIds(Qualified(snap[p], task[p]))
            IN  /\ picked'[p] \in ok
                /\ \A i \in ok : lastUsed[picked'[p]] <= lastUsed[i]]_vars

\* The first half of C28 alone: a leastused selection settles on a qualified
\* candidate whose runtime use_count is minimal among the qualified ones.
LeastUsedMinimal ==
  [][\A p \in SelProcs :
       (pc[p] = "strategy" /\ pc'[p] = "stats" /\ task[p].strategy = StrategyLeastUsed)
         => LET ok == SeqIds(Qualified(snap[p], task[p]))
            IN  /\ picked'[p] \in ok
                /\ \A i \in ok : useCount[picked'[p]] <= useCount[i]]_vars

\* C28: a leastused selection settles on a qualified candidate of minimal
\* runtime use_count, and it returns that proxy with the use counted, which
\* is what keeps the use_counts of a fixed qualified set within 1 of each
\* other over repeated selections.
C28_LeastUsedBalances ==
  /\ LeastUsedMinimal
  /\ \A p \in SelProcs :
       (pc[p] = "stats" /\ task[p].strategy = StrategyLeastUsed)
         ~> (pc[p] = "ret" /\ result[p] = "proxy" /\ useCount[picked[p]] = before[p] + 1)

\* C29: when every qualified candidate of a weighted selection has weight 0,
\* each of them can be the one the strategy settles on.
C29_ZeroWeightsUniform ==
  \A p \in SelProcs :
    LET cs == Qualified(snap[p], task[p])
    IN  (/\ pc[p] = "strategy"
         /\ task[p].strategy = StrategyWeighted
         /\ cs # <<>>
         /\ \A k \in 1..Len(cs) : WeightOf(cs[k]) = 0)
          => \A k \in 1..Len(cs) : ENABLED (weightedSchedule(p) /\ picked'[p] = cs[k].id)

\* The candidates of a site_adaptive selection with a domain, ranked.
Ranked(p) == SortSlice(snap[p], StrategySiteAdaptive)

\* C30: a site_adaptive selection with a domain settles on one of the first
\* min(3, n) of its n ranked candidates, and it can settle on each of them.
C30_TopThreeRandom ==
  /\ [](\A p \in SelProcs :
          (/\ pc[p] = "strategy"
           /\ task[p].strategy = StrategySiteAdaptive
           /\ task[p].domain # "")
            => \A k \in 1..Min(3, Len(Ranked(p))) :
                 ENABLED (siteAdaptiveSchedule(p) /\ picked'[p] = Ranked(p)[k].id))
  /\ [][\A p \in SelProcs :
          (/\ pc[p] = "strategy" /\ pc'[p] = "stats"
           /\ task[p].strategy = StrategySiteAdaptive
           /\ task[p].domain # "")
            => \E k \in 1..Min(3, Len(Ranked(p))) : picked'[p] = Ranked(p)[k].id]_vars

\* The workers that hold a proxy and have not finished validating it.
InFlight == {w \in Workers : worker[w].at = "busy"}

\* C31: during a ValidateAll run over N loaded proxies at most
\* min(maxWorkers, N) validations are in flight, and no two workers of the
\* run hold the same proxy.
C31_WorkersBounded ==
  /\ Cardinality(InFlight) <= Min(maxWorkers, totalCount)
  /\ \A w1, w2 \in InFlight : worker[w1].job.id = worker[w2].job.id => w1 = w2

\* The pool size, not the number of proxies, is what limits the run: one
\* worker is busy while a proxy waits in the channel.
C31_Witness ==
  /\ maxWorkers = 1
  /\ totalCount = 2
  /\ Cardinality(InFlight) = 1
  /\ jobs # <<>>

\* A ValidateAll run has ended in order: nil returned, one result tallied per
\* loaded proxy, each loaded proxy validated once, every worker gone, nothing
\* left in or waiting on either channel.
RunComplete ==
  /\ vapc = "idle"
  /\ vaRet = "nil"
  /\ successCount + failedCount = totalCount
  /\ \A i \in Ids : validated[i] <= 1
  /\ Cardinality({i \in Ids : validated[i] = 1}) = totalCount
  /\ wg = 0
  /\ \A w \in Workers : worker[w].at \in {"off", "exit"}
  /\ jobs = <<>>
  /\ results = <<>>
  /\ resultsClosed

\* C32: every ValidateAll run that set up its worker pool ends in order
\* (a call that loaded nothing has returned nil in its first step).
C32_ValidateAllTerminates == (vapc = "send") ~> RunComplete

\* A run over two proxies with a single worker has ended, one probe passed
\* and one failed.
C32_Witness ==
  /\ RunComplete
  /\ maxWorkers = 1
  /\ totalCount = 2
  /\ successCount = 1
  /\ failedCount = 1

\* C33: ValidateAll returns an error only from the step that loads the table
\* (the query failed, nothing was validated); a call that set up its worker
\* pool returns nil whatever the validations came to, after every loaded
\* proxy was validated.
C33_OutcomesAreData ==
  [][/\ (vaRet' = "err" /\ vaRet # "err")
          => (vapc = "idle" /\ vapc' = "idle" /\ vaRuns' = vaRuns + 1
              /\ rows' = rows /\ validated' = validated)
     /\ (vapc = "collect" /\ vapc' = "idle")
          => (/\ vaRet' = "nil"
              /\ \A i \in Ids : validated[i] <= 1
              /\ Cardinality({i \in Ids : validated[i] = 1}) = totalCount)]_vars

\* A run over two proxies returned nil although no validation passed and one
\* of them returned an error.
C33_Witness ==
  /\ vapc = "idle"
  /\ vaRet = "nil"
  /\ totalCount = 2
  /\ failedCount = 2
  /\ errored >= 1

\* The candidates of the pages that were fetched without error, in URL order.
RECURSIVE Fetched(_)
Fetched(got) ==
  IF got = <<>> THEN <<>>
  ELSE (IF Head(got).ok THEN Head(got).proxies ELSE <<>>) \o Fetched(Tail(got))

\* C34: a scrape source's FetchProxies went through every URL, skipping the
\* failed ones; when some URL returned candidates it returns the candidates
\* of all fetched URLs and no error, and when no URL returned any candidate
\* it returns an error.
C34_PartialFailureTolerated ==
  [][(scrape.at = "loop" /\ scrape'.at = "idle")
       => /\ Len(scrape.got) = Len(Urls)
          /\ IF Fetched(scrape.got) # <<>>
             THEN /\ scrape'.err = "nil"
                  /\ Len(scrape'.ret) = Len(Fetched(scrape.got))
                  /\ \A k \in 1..Len(scrape'.ret) : scrape'.ret[k].ep = Fetched(scrape.got)[k].ep
             ELSE scrape'.err # "nil"]_vars

\* C35: every feedback report and every validation appends one ProxyUsage
\* record, and no step removes or rewrites a record: with no validation run
\* so far and no report in progress the table holds one record per report,
\* and a validation adds one.
C35_UsageAppended ==
  /\ []((vruns = 0 /\ \A p \in RepProcs : pc[p] = "idle") => Len(usage) = reports)
  /\ [][/\ Len(usage') >= Len(usage)
        /\ SubSeq(usage', 1, Len(usage)) = usage
        /\ (vrun /\ vjobs' # vjobs) => Len(usage') = Len(usage) + 1]_vars

\* C36: a proxy row that has been deleted stays deleted: no step, and so no
\* job that read the row before the deletion (an in-flight validation, the
\* pool facade's save, the optimise job's save of its snapshot), makes a
\* deleted row a live row again.
C36_DeletedStaysDeleted ==
  [][\A i \in 1..Len(rows) :
       rows[i].deleted => (i <= Len(rows') /\ rows'[i].deleted)]_vars

\* The frame half of C37 alone: no step of a selection, from the strategy to
\* the return, changes the runtime fail_count or the cooldown entry of the
\* proxy it settled on.
SelectionKeepsFailures ==
  [][\A p \in SelProcs :
       (pc[p] \in {"strategy", "stats", "locked"} /\ pc'[p] # pc[p] /\ picked'[p] # 0)
         => /\ failCount'[picked'[p]] = failCount[picked'[p]]
            /\ cooldown'[picked'[p]] = cooldown[picked'[p]]]_vars

\* C37: a selection leaves the runtime fail_count and the cooldown entry of
\* the selected proxy as they were, so a failure report that finds two
\* failures in a row on record brings the proxy to cooldown, selections in
\* between or not.
C37_SelectionKeepsFailures ==
  /\ SelectionKeepsFailures
  /\ \A p \in RepProcs : \A i \in ReportIds :
       (/\ pc[p] = "stats"
        /\ rep[p].proxy.id = i
        /\ ~rep[p].success
        /\ failCount[i] = CooldownFailures - 1)
         ~> (cooldown[i] # NoTime)

\* Leases outstanding on proxy i, over the values callers hold.
RECURSIVE LeasesOn(_, _)
LeasesOn(i, hs) ==
  IF hs = {} THEN 0
  ELSE LET h == CHOOSE x \in hs : TRUE
       IN  (IF mem[h] # NoCopy /\ mem[h].id = i THEN leases[h] ELSE 0)
           + LeasesOn(i, hs \ {h})

\* C38: the leases outstanding on one proxy id, over every value of the row
\* that callers hold, never exceed the proxy's max_concurrent.
C38_LeasesBounded ==
  \A i \in LiveIds(rows) : LeasesOn(i, Callers) <= rows[i].maxConcurrent

\* A stored proxy in good health: it has passed a validation, the last one
\* succeeded, no validation failure and no failure report is on its record.
Healthy(c) ==
  /\ ~c.deleted
  /\ c.ep \in passed
  /\ c.available
  /\ c.failCount = 0
  /\ c.failure = 0

\* C39: no step deletes a healthy proxy; with the validator evicting only on
\* a failed probe, that is: the optimise job never deletes a healthy proxy.
C39_HealthySurvives ==
  [][\A i \in LiveIds(rows) : Healthy(rows[i]) => ~rows'[i].deleted]_vars

\* C40: UpdateStats never divides by zero: whenever a caller holds a proxy
\* value with a non-zero speed, on which ReleaseScheduledProxy can apply
\* UpdateStats(true, speed), the value's use_count is at least 1.
C40_NoDivisionByZero ==
  \A h \in Holders : mem[h] # NoCopy => ~DividesByZero(mem[h], TRUE)

====
